---- MODULE Spec2Model ----
(***************************************************************************)
(* A model of the bounding-box editing surface of the Desktop UI/UX        *)
(* Analyzer (src/desktop_analyzer/main.py): the ImageCanvas pointer state  *)
(* machine, the full-screen markup window with its delete/undo stack, the  *)
(* JSON export, and the detection call of ai_analyzer.py.                  *)
(*                                                                         *)
(* Geometry is Qt's: a QRect is the four inclusive integer edges           *)
(* (x1, y1, x2, y2), so right() = x + width - 1; a Python float scale is   *)
(* the exact rational n/d it is computed from.                             *)
(***************************************************************************)
EXTENDS Integers, Sequences, FiniteSets, TLC

VARIABLES
    heap,                 \* the BoundingBox objects alive: object id -> fields
    boxes,                \* ImageCanvas.boxes, per canvas: a sequence of object ids
    selected_box,         \* ImageCanvas.selected_box, per canvas: an object id or None
    drag_start_position,  \* ImageCanvas.drag_start_position, per canvas
    original_rect,        \* ImageCanvas.original_rect, per canvas
    pixmap,               \* ImageCanvas.pixmap, per canvas: whether set, and the image size
    wsize,                \* the widget's size(), per canvas
    scale,                \* ImageCanvas.scale, per canvas: the rational n/d
    offset,               \* ImageCanvas.offset, per canvas
    markup_open,          \* a FullScreenMarkupWindow is executing
    deleted_boxes_stack,  \* FullScreenMarkupWindow.deleted_boxes_stack
    emitted,              \* the box_selected emissions of the last handler
    snap,                 \* the delete_box or undo just run on the markup collection
    ingests,              \* detections ingested so far
    edits,                \* pointer-moves that wrote a rectangle so far
    args,                 \* the arguments of a function applied on its own
    result,               \* and what it returned
    view,                 \* src/views/canvas.py's ImageCanvas and the AnalysisResult it shows
    app                   \* src/controllers' AppController, and what its last call did

canvas_vars == <<heap, boxes, selected_box, drag_start_position, original_rect,
                 pixmap, wsize, scale, offset, markup_open,
                 deleted_boxes_stack, emitted, snap, ingests, edits>>
fn_vars == <<args, result>>
pkg_vars == <<view, app>>
vars == <<heap, boxes, selected_box, drag_start_position, original_rect,
          pixmap, wsize, scale, offset, markup_open,
          deleted_boxes_stack, emitted, snap, ingests, edits, args, result,
          view, app>>

(***************************************************************************)
(* Values                                                                  *)
(***************************************************************************)
None == 0
NoPixmap == [set |-> FALSE, w |-> 0, h |-> 0]
NoHandle == "none"
\* What the last handler did to the markup collection: nothing recorded, a
\* delete_box (before: the collection it found), or an undo (before: the
\* collection found by the delete it takes back).  A run of deletes followed
\* by undos keeps the collections found by the deletes not yet undone (run),
\* the number of deletes (k) and the height of the undo stack at its start.
NoSnap == [op |-> "none", before |-> <<>>, run |-> <<>>, k |-> 0, base |-> 0]
Deleted(bs, prev, stk) ==
    LET on == prev.op = "delete"
    IN  [op |-> "delete", before |-> bs,
         run |-> Append(IF on THEN prev.run ELSE <<>>, bs),
         k |-> IF on THEN prev.k + 1 ELSE 1,
         base |-> IF on THEN prev.base ELSE Len(stk)]
Undone(prev) ==
    [op |-> "undo", before |-> prev.run[Len(prev.run)],
     run |-> SubSeq(prev.run, 1, Len(prev.run) - 1),
     k |-> prev.k, base |-> prev.base]
UndoneEmpty(bs, r) == [op |-> "undo_empty", before |-> bs, raised |-> r]
Canvases == {"main", "markup"}

Max(a, b) == IF a >= b THEN a ELSE b
Min(a, b) == IF a <= b THEN a ELSE b

\* Python int() of the exact quotient n/d, d > 0: truncation toward zero.
TruncDiv(n, d) == IF n >= 0 THEN n \div d ELSE -((-n) \div d)

\* Qt's qRound of the exact quotient n/d, d > 0: halves away from zero.
RoundDiv(n, d) == IF n >= 0 THEN (2 * n + d) \div (2 * d)
                  ELSE -((2 * (-n) + d) \div (2 * d))

Point(px, py) == [x |-> px, y |-> py]

(***************************************************************************)
(* QRect                                                                   *)
(***************************************************************************)
QRect(px, py, w, h) == [x1 |-> px, y1 |-> py, x2 |-> px + w - 1, y2 |-> py + h - 1]
NullRect == QRect(0, 0, 0, 0)
Width(r) == r.x2 - r.x1 + 1
Height(r) == r.y2 - r.y1 + 1
MoveTo(r, p) == [x1 |-> p.x, y1 |-> p.y,
                 x2 |-> r.x2 + (p.x - r.x1), y2 |-> r.y2 + (p.y - r.y1)]
CenterX(r) == TruncDiv(r.x1 + r.x2, 2)
CenterY(r) == TruncDiv(r.y1 + r.y2, 2)

RectContains(r, p) ==
    LET l == IF r.x2 < r.x1 - 1 THEN r.x2 ELSE r.x1
        rr == IF r.x2 < r.x1 - 1 THEN r.x1 ELSE r.x2
        t == IF r.y2 < r.y1 - 1 THEN r.y2 ELSE r.y1
        b == IF r.y2 < r.y1 - 1 THEN r.y1 ELSE r.y2
    IN  p.x >= l /\ p.x <= rr /\ p.y >= t /\ p.y <= b

(***************************************************************************)
(* BoundingBox                                                             *)
(***************************************************************************)
HandleOrder == <<"top-left", "top-right", "bottom-left", "bottom-right",
                 "top", "bottom", "left", "right">>
HandleNames == {HandleOrder[i] : i \in 1..Len(HandleOrder)}

resize_handle_size == 8
min_size == 10

\* BoundingBox.__init__ on one entry of the detection's "elements": box is the
\* entry's [x1, y1, x2, y2], id its "id" (None when absent).  src_box keeps the
\* ingested box and edited whether a gesture has written rect since.
NewBox(el) ==
    [rect |-> QRect(el.box[1], el.box[2], el.box[3] - el.box[1], el.box[4] - el.box[2]),
     element_id |-> el.id,
     description |-> IF "description" \in DOMAIN el THEN el.description ELSE "",
     is_selected |-> FALSE, is_hovered |-> FALSE,
     is_dragging |-> FALSE, is_resizing |-> FALSE,
     resize_handle |-> NoHandle,
     scaled_rect |-> NullRect,
     has_handles |-> FALSE, handles_of |-> NullRect,
     src_box |-> el.box, edited |-> FALSE]

\* The rectangle calculate_resize_handles stores for one handle of a box whose
\* scaled_rect is r.
HandleRect(r, name) ==
    LET half_size == resize_handle_size \div 2
        hx == CASE name \in {"top-left", "bottom-left", "left"} -> r.x1 - half_size
                [] name \in {"top-right", "bottom-right", "right"} -> r.x2 - half_size
                [] OTHER -> CenterX(r) - half_size
        hy == CASE name \in {"top-left", "top-right", "top"} -> r.y1 - half_size
                [] name \in {"bottom-left", "bottom-right", "bottom"} -> r.y2 - half_size
                [] OTHER -> CenterY(r) - half_size
    IN  QRect(hx, hy, resize_handle_size, resize_handle_size)

\* BoundingBox.contains
BoxContains(b, p) == RectContains(b.scaled_rect, p)

\* BoundingBox.get_resize_handle_at: the first handle, in the dictionary's
\* insertion order, whose rectangle contains the point.
FirstHandleFrom(b, p, i) ==
    LET hit == {j \in i..Len(HandleOrder) : RectContains(HandleRect(b.handles_of, HandleOrder[j]), p)}
    IN  IF hit = {} THEN NoHandle
        ELSE HandleOrder[CHOOSE j \in hit : \A k \in hit : j <= k]

get_resize_handle_at(b, p) ==
    IF ~b.is_selected THEN NoHandle
    ELSE IF ~b.has_handles THEN NoHandle
    ELSE FirstHandleFrom(b, p, 1)

\* BoundingBox.draw: the display rectangle under (scale, offset), and the
\* handles when the box is selected.
ScaledRectOf(r, sc, off) ==
    QRect(TruncDiv(off.x * sc.d + r.x1 * sc.n, sc.d),
          TruncDiv(off.y * sc.d + r.y1 * sc.n, sc.d),
          TruncDiv(Width(r) * sc.n, sc.d),
          TruncDiv(Height(r) * sc.n, sc.d))

draw(b, sc, off) ==
    LET sr == ScaledRectOf(b.rect, sc, off)
    IN  IF b.is_selected
        THEN [b EXCEPT !.scaled_rect = sr, !.has_handles = TRUE, !.handles_of = sr]
        ELSE [b EXCEPT !.scaled_rect = sr]

(***************************************************************************)
(* ImageCanvas: the pure parts                                             *)
(***************************************************************************)
\* QSize.scaled(size, KeepAspectRatio), as QPixmap.scaled uses it.
\* QSize.scale(KeepAspectRatio) alone, without QPixmap.scaled's floor of one
\* pixel on each side of the result.
QSizeScaled(pw, ph, aw, ah) ==
    IF pw = 0 \/ ph = 0 THEN [w |-> 0, h |-> 0]
    ELSE LET rw == (ah * pw) \div ph
         IN  IF rw <= aw THEN [w |-> rw, h |-> ah]
             ELSE [w |-> aw, h |-> (aw * ph) \div pw]

\* The size of QPixmap.scaled(size, KeepAspectRatio): a null pixmap for a
\* null pixmap or an empty target size; else the size scaled by
\* QSize.scale, each side at least one pixel.
ScaledSize(pw, ph, aw, ah) ==
    IF pw = 0 \/ ph = 0 \/ aw <= 0 \/ ah <= 0 THEN [w |-> 0, h |-> 0]
    ELSE LET rw == (ah * pw) \div ph
         IN  IF rw <= aw THEN [w |-> Max(rw, 1), h |-> ah]
             ELSE [w |-> aw, h |-> Max((aw * ph) \div pw, 1)]

\* paintEvent's scale and offset for a pixmap in a widget of size ws.
PaintScale(pm, ws) ==
    LET sp == ScaledSize(pm.w, pm.h, ws.w, ws.h)
    IN  IF pm.w > 0 THEN [n |-> sp.w, d |-> pm.w] ELSE [n |-> 1, d |-> 1]

PaintOffset(pm, ws) ==
    LET sp == ScaledSize(pm.w, pm.h, ws.w, ws.h)
    IN  Point((ws.w - sp.w) \div 2, (ws.h - sp.h) \div 2)

\* The loop without reversed(): the first box, among the first i, to contain p.
BoxAtForward(h, bs, p, i) ==
    LET hit == {j \in 1..i : BoxContains(h[bs[j]], p)}
    IN  IF hit = {} THEN None ELSE bs[CHOOSE j \in hit : \A k \in hit : j <= k]

\* _get_box_at over a collection bs of object ids in the heap h: the loop over
\* reversed(self.boxes), from index i down.
RECURSIVE BoxAtFrom(_, _, _, _)
BoxAtFrom(h, bs, p, i) ==
    IF i = 0 THEN None
    ELSE IF BoxContains(h[bs[i]], p) THEN bs[i]
    ELSE BoxAtFrom(h, bs, p, i - 1)

_get_box_at(h, bs, p) == BoxAtFrom(h, bs, p, Len(bs))

\* _handle_resize: the rectangle written for an original rectangle, a handle,
\* the pointer's display delta, the scale and the image size.
ApplyHandle(r, handle, dx, dy) ==
    CASE handle = "top-left" -> [r EXCEPT !.x1 = r.x1 + dx, !.y1 = r.y1 + dy]
      [] handle = "top-right" -> [r EXCEPT !.y1 = r.y1 + dy, !.x2 = r.x2 + dx]
      [] handle = "bottom-left" -> [r EXCEPT !.x1 = r.x1 + dx, !.y2 = r.y2 + dy]
      [] handle = "bottom-right" -> [r EXCEPT !.x2 = r.x2 + dx, !.y2 = r.y2 + dy]
      [] handle = "top" -> [r EXCEPT !.y1 = r.y1 + dy]
      [] handle = "bottom" -> [r EXCEPT !.y2 = r.y2 + dy]
      [] handle = "left" -> [r EXCEPT !.x1 = r.x1 + dx]
      [] handle = "right" -> [r EXCEPT !.x2 = r.x2 + dx]
      [] OTHER -> r

EnsureMinWidth(r, handle) ==
    IF Width(r) < min_size
    THEN IF handle \in {"top-left", "bottom-left", "left"}
         THEN [r EXCEPT !.x1 = r.x2 - min_size]
         ELSE [r EXCEPT !.x2 = r.x1 + min_size]
    ELSE r

EnsureMinHeight(r, handle) ==
    IF Height(r) < min_size
    THEN IF handle \in {"top-left", "top-right", "top"}
         THEN [r EXCEPT !.y1 = r.y2 - min_size]
         ELSE [r EXCEPT !.y2 = r.y1 + min_size]
    ELSE r

ClampToImage(r, img_w, img_h) ==
    LET a == IF r.x1 < 0 THEN [r EXCEPT !.x1 = 0] ELSE r
        b == IF a.y1 < 0 THEN [a EXCEPT !.y1 = 0] ELSE a
        c == IF b.x2 > img_w THEN [b EXCEPT !.x2 = img_w] ELSE b
    IN  IF c.y2 > img_h THEN [c EXCEPT !.y2 = img_h] ELSE c

ResizedRect(orig, handle, delta, sc, img_w, img_h) ==
    LET dx == TruncDiv(delta.x * sc.d, sc.n)
        dy == TruncDiv(delta.y * sc.d, sc.n)
    IN  ClampToImage(
            EnsureMinHeight(EnsureMinWidth(ApplyHandle(orig, handle, dx, dy), handle), handle),
            img_w, img_h)

\* mouseMoveEvent's drag branch: the rectangle written for the pointer at p.
\* mouseMoveEvent's (new_top_left_scaled - self.offset) / self.scale: a
\* QPoint divided by a float, each coordinate rounded.
Unscaled(pd, off, sc) ==
    Point(RoundDiv((pd.x - off.x) * sc.d, sc.n), RoundDiv((pd.y - off.y) * sc.d, sc.n))

\* The drag branch without its max/min against the image size.
DraggedUnclamped(r, p, dsp, off, sc, img_w, img_h) ==
    MoveTo(r, Unscaled(Point(p.x - dsp.x, p.y - dsp.y), off, sc))

DraggedRect(r, p, dsp, off, sc, img_w, img_h) ==
    LET px == Unscaled(Point(p.x - dsp.x, p.y - dsp.y), off, sc).x
        py == Unscaled(Point(p.x - dsp.x, p.y - dsp.y), off, sc).y
        x == Max(0, Min(px, img_w - Width(r)))
        y == Max(0, Min(py, img_h - Height(r)))
    IN  MoveTo(r, Point(x, y))

\* The entry written from the rectangle's edges, right() and bottom().
ExportEdges(b) == <<b.rect.x1, b.rect.y1, b.rect.x2, b.rect.y2>>

\* The "box" entry save_annotations and save_markup write for a box.
ExportBox(b) ==
    <<b.rect.x1, b.rect.y1, b.rect.x1 + Width(b.rect), b.rect.y1 + Height(b.rect)>>

ExportElements(h, bs) ==
    [i \in 1..Len(bs) |-> [id |-> h[bs[i]].element_id, box |-> ExportBox(h[bs[i]])]]

(***************************************************************************)
(* The object heap                                                         *)
(***************************************************************************)
Range(q) == {q[i] : i \in 1..Len(q)}

\* The objects still referenced: by a collection, as a selected box, or from
\* the undo stack.  Python frees the rest.
Roots(bx, sel, stk) ==
    UNION {Range(bx[c]) : c \in Canvases}
    \cup ({sel[c] : c \in Canvases} \ {None})
    \cup {stk[i][1] : i \in 1..Len(stk)}

Collect(h, roots) == [b \in (DOMAIN h) \cap roots |-> h[b]]

\* The k-th smallest object id not in use.
RECURSIVE FreshId(_, _)
FreshId(used, k) ==
    LET m == CHOOSE i \in 1..(Cardinality(used) + 1) : i \notin used /\ \A j \in 1..(i - 1) : j \in used
    IN  IF k = 1 THEN m ELSE FreshId(used \cup {m}, k - 1)

\* The list comprehension of set_image: one new BoundingBox per element.
Ingest(h, els) ==
    LET ids == [i \in 1..Len(els) |-> FreshId(DOMAIN h, i)]
    IN  [ids |-> ids,
         heap |-> [b \in (DOMAIN h) \cup Range(ids) |->
                     IF b \in DOMAIN h THEN h[b]
                     ELSE NewBox(els[CHOOSE i \in 1..Len(els) : ids[i] = b])]]

\* list.remove(box), list.index(box) and list.insert(idx, box)
IndexOf(q, b) == CHOOSE i \in 1..Len(q) : q[i] = b /\ \A j \in 1..(i - 1) : q[j] # b
Remove(q, b) ==
    IF b \notin Range(q) THEN q
    ELSE LET i == IndexOf(q, b) IN SubSeq(q, 1, i - 1) \o SubSeq(q, i + 1, Len(q))
\* list.append(box) in place of list.insert(idx, box)
InsertLast(q, idx, b) == Append(q, b)

Insert(q, idx, b) ==
    LET k == Min(idx, Len(q)) IN SubSeq(q, 1, k) \o <<b>> \o SubSeq(q, k + 1, Len(q))

\* The state an action leaves: the heap without the objects nothing refers to.
Commit(h, bx, sel, stk) ==
    /\ heap' = Collect(h, Roots(bx, sel, stk))
    /\ boxes' = bx
    /\ selected_box' = sel
    /\ deleted_boxes_stack' = stk

(***************************************************************************)
(* Bounds of the model                                                     *)
(***************************************************************************)
MaxIngests == 1   \* non-empty detections ingested in one run
MaxEdits == 1     \* pointer-moves that write a rectangle in one run

img_w(c) == IF pixmap[c].set THEN pixmap[c].w ELSE 0
img_h(c) == IF pixmap[c].set THEN pixmap[c].h ELSE 0

(***************************************************************************)
(* paintEvent.  Every handler that changes what is drawn ends in           *)
(* self.update(); Qt delivers the paintEvent that schedules before the     *)
(* next input event, so the handler's action ends with it.                 *)
(***************************************************************************)
PaintedHeap(h, bs, pm, ws) ==
    [b \in DOMAIN h |->
        IF b \in Range(bs) THEN draw(h[b], PaintScale(pm, ws), PaintOffset(pm, ws))
        ELSE h[b]]

\* The handler's result (h, bx, sel, stk) followed by paintEvent on canvas c,
\* under the pixmap and widget size the handler leaves.
Update(c, h, bx, sel, stk) ==
    IF pixmap'[c].set
    THEN /\ scale' = [scale EXCEPT ![c] = PaintScale(pixmap'[c], wsize'[c])]
         /\ offset' = [offset EXCEPT ![c] = PaintOffset(pixmap'[c], wsize'[c])]
         /\ Commit(PaintedHeap(h, bx[c], pixmap'[c], wsize'[c]), bx, sel, stk)
    ELSE /\ UNCHANGED <<scale, offset>>
         /\ Commit(h, bx, sel, stk)

\* A handler that returns without update().
NoUpdate ==
    UNCHANGED <<heap, boxes, selected_box, deleted_boxes_stack, scale, offset>>

(***************************************************************************)
(* ImageCanvas: the pointer handlers.  In the markup window box_selected   *)
(* is connected to on_canvas_box_selected, which runs the modal action     *)
(* dialog inside the emission: dlg is the user's choice there ("delete"    *)
(* for delete_box, "other" for any other way of closing it).  menu is the  *)
(* choice in the context menu of a right click ("delete" for a confirmed   *)
(* delete_element).                                                        *)
(***************************************************************************)
\* delete_box of show_box_action_dialog is what the emission runs
DialogDelete(c, dlg) == c = "markup" /\ dlg = "delete"

\* mousePressEvent with the element under the point tested before the
\* handles of the selected element.
LeftPressBodyFirst(c, p, dlg) ==
    LET sel == selected_box[c]
        box == _get_box_at(heap, boxes[c], p)
        h1 == IF sel # None THEN [heap EXCEPT ![sel].is_selected = FALSE] ELSE heap
    IN  /\ box # None
        /\ UNCHANGED <<pixmap, wsize, markup_open, ingests, edits, original_rect>>
        /\ Update(c, [h1 EXCEPT ![box].is_selected = TRUE, ![box].is_dragging = TRUE],
                  boxes, [selected_box EXCEPT ![c] = box], deleted_boxes_stack)
        /\ drag_start_position' =
             [drag_start_position EXCEPT
                ![c] = Point(p.x - heap[box].scaled_rect.x1, p.y - heap[box].scaled_rect.y1)]
        /\ emitted' = <<box>>
        /\ snap' = NoSnap

\* mousePressEvent, LeftButton
LeftPress(c, p, dlg) ==
    LET sel == selected_box[c]
        box == _get_box_at(heap, boxes[c], p)
        rh == IF sel # None THEN get_resize_handle_at(heap[sel], p) ELSE NoHandle
        h1 == IF sel # None THEN [heap EXCEPT ![sel].is_selected = FALSE] ELSE heap
    IN  /\ UNCHANGED <<pixmap, wsize, markup_open, ingests, edits>>
        /\ IF rh # NoHandle
           THEN /\ Update(c, [heap EXCEPT ![sel].is_resizing = TRUE,
                                          ![sel].resize_handle = rh],
                          boxes, selected_box, deleted_boxes_stack)
                /\ drag_start_position' = [drag_start_position EXCEPT ![c] = p]
                /\ original_rect' = [original_rect EXCEPT ![c] = heap[sel].rect]
                /\ emitted' = <<>>
                /\ snap' = NoSnap
           ELSE IF box # None
           THEN LET h2 == [h1 EXCEPT ![box].is_selected = TRUE, ![box].is_dragging = TRUE]
                    del == DialogDelete(c, dlg)
                IN  /\ Update(c, h2,
                              IF del THEN [boxes EXCEPT ![c] = Remove(@, box)] ELSE boxes,
                              [selected_box EXCEPT ![c] = box],
                              IF del THEN Append(deleted_boxes_stack,
                                                 <<box, IndexOf(boxes[c], box) - 1>>)
                                     ELSE deleted_boxes_stack)
                    /\ drag_start_position' =
                         [drag_start_position EXCEPT
                            ![c] = Point(p.x - heap[box].scaled_rect.x1,
                                         p.y - heap[box].scaled_rect.y1)]
                    /\ UNCHANGED original_rect
                    /\ emitted' = <<box>>
                    /\ snap' = IF del THEN Deleted(boxes[c], snap, deleted_boxes_stack) ELSE NoSnap
           ELSE /\ Update(c, h1, boxes, [selected_box EXCEPT ![c] = None],
                          deleted_boxes_stack)
                /\ UNCHANGED <<drag_start_position, original_rect>>
                /\ emitted' = <<None>>
                /\ snap' = NoSnap

\* mousePressEvent, RightButton, with show_context_menu and delete_element
RightPress(c, p, dlg, menu) ==
    LET sel == selected_box[c]
        box == _get_box_at(heap, boxes[c], p)
    IN  /\ UNCHANGED <<pixmap, wsize, markup_open, ingests, edits,
                       drag_start_position, original_rect>>
        /\ IF box = None
           THEN /\ NoUpdate
                /\ emitted' = <<>>
                /\ snap' = NoSnap
           ELSE LET h1 == IF sel # None THEN [heap EXCEPT ![sel].is_selected = FALSE]
                          ELSE heap
                    h2 == [h1 EXCEPT ![box].is_selected = TRUE]
                    del == DialogDelete(c, dlg)
                    bx1 == IF del THEN Remove(boxes[c], box) ELSE boxes[c]
                    stk == IF del THEN Append(deleted_boxes_stack,
                                              <<box, IndexOf(boxes[c], box) - 1>>)
                           ELSE deleted_boxes_stack
                    bx2 == IF menu = "delete" THEN Remove(bx1, box) ELSE bx1
                IN  /\ Update(c, h2, [boxes EXCEPT ![c] = bx2],
                              [selected_box EXCEPT
                                 ![c] = IF menu = "delete" THEN None ELSE box],
                              stk)
                    /\ emitted' = IF menu = "delete" THEN <<box, None>> ELSE <<box>>
                    /\ snap' = IF del /\ menu # "delete"
                               THEN Deleted(boxes[c], snap, deleted_boxes_stack)
                               ELSE NoSnap

\* mouseMoveEvent with the drag branch writing the moved rectangle to every
\* element of the collection instead of the selected one.
MouseMoveDragsAll(c, p) ==
    LET sel == selected_box[c]
    IN  /\ UNCHANGED <<pixmap, wsize, markup_open, ingests,
                       drag_start_position, original_rect>>
        /\ emitted' = <<>>
        /\ snap' = NoSnap
        /\ IF sel # None /\ heap[sel].is_dragging /\ ~heap[sel].is_resizing
           THEN /\ edits < MaxEdits
                /\ scale[c].n > 0
                /\ Update(c, [b \in DOMAIN heap |->
                                IF b \in Range(boxes[c])
                                THEN [heap[b] EXCEPT
                                        !.rect = DraggedRect(heap[sel].rect, p,
                                                             drag_start_position[c], offset[c],
                                                             scale[c], img_w(c), img_h(c)),
                                        !.edited = TRUE]
                                ELSE heap[b]],
                          boxes, selected_box, deleted_boxes_stack)
                /\ edits' = edits + 1
           ELSE NoUpdate /\ UNCHANGED edits

\* mouseMoveEvent, with _handle_resize
MouseMove(c, p) ==
    LET sel == selected_box[c]
    IN  /\ UNCHANGED <<pixmap, wsize, markup_open, ingests,
                       drag_start_position, original_rect>>
        /\ emitted' = <<>>
        /\ snap' = NoSnap
        /\ IF sel # None /\ heap[sel].is_resizing
           THEN IF heap[sel].resize_handle = NoHandle
                THEN NoUpdate /\ UNCHANGED edits
                ELSE /\ edits < MaxEdits
                     /\ scale[c].n > 0
                     /\ Update(c, [heap EXCEPT
                                     ![sel].rect =
                                        ResizedRect(original_rect[c], heap[sel].resize_handle,
                                                    Point(p.x - drag_start_position[c].x,
                                                          p.y - drag_start_position[c].y),
                                                    scale[c], img_w(c), img_h(c)),
                                     ![sel].edited = TRUE],
                               boxes, selected_box, deleted_boxes_stack)
                     /\ edits' = edits + 1
           ELSE IF sel # None /\ heap[sel].is_dragging
           THEN /\ edits < MaxEdits
                /\ scale[c].n > 0
                /\ Update(c, [heap EXCEPT
                                ![sel].rect =
                                   DraggedRect(heap[sel].rect, p, drag_start_position[c],
                                               offset[c], scale[c], img_w(c), img_h(c)),
                                ![sel].edited = TRUE],
                          boxes, selected_box, deleted_boxes_stack)
                /\ edits' = edits + 1
           ELSE IF sel # None /\ get_resize_handle_at(heap[sel], p) # NoHandle
           THEN /\ Update(c, heap, boxes, selected_box, deleted_boxes_stack)
                /\ UNCHANGED edits
           ELSE LET cur == _get_box_at(heap, boxes[c], p)
                    h1 == [b \in DOMAIN heap |->
                             IF b \in Range(boxes[c])
                             THEN [heap[b] EXCEPT !.is_hovered = (b = cur)]
                             ELSE heap[b]]
                IN  /\ IF h1 # heap
                       THEN Update(c, h1, boxes, selected_box, deleted_boxes_stack)
                       ELSE NoUpdate
                    /\ UNCHANGED edits

\* mouseReleaseEvent, LeftButton
MouseRelease(c) ==
    LET sel == selected_box[c]
    IN  /\ UNCHANGED <<pixmap, wsize, markup_open, ingests, edits,
                       drag_start_position, original_rect>>
        /\ emitted' = <<>>
        /\ snap' = NoSnap
        /\ IF sel # None
           THEN Update(c, [heap EXCEPT ![sel].is_dragging = FALSE,
                                       ![sel].is_resizing = FALSE,
                                       ![sel].resize_handle = NoHandle],
                       boxes, selected_box, deleted_boxes_stack)
           ELSE NoUpdate

\* resizeEvent of the canvas widget: a new size(), and the paintEvent after it
ResizeWidget(c, ws) ==
    /\ ws # wsize[c]
    /\ wsize' = [wsize EXCEPT ![c] = ws]
    /\ UNCHANGED <<pixmap, markup_open, ingests, edits, drag_start_position, original_rect>>
    /\ emitted' = <<>>
    /\ snap' = NoSnap
    /\ Update(c, heap, boxes, selected_box, deleted_boxes_stack)

(***************************************************************************)
(* ai_analyzer.analyze_ui_elements.  Its input: whether the argument is an *)
(* image, what get_api_key returns ("key", or "none" after it caught its   *)
(* own exception), whether generate_content raises, and the response text: *)
(* "invalid" when json.loads rejects it, else the JSON value it decodes to.*)
(***************************************************************************)
JsonNone == [kind |-> "none"]
JsonDict(has, els) == [kind |-> "dict", has_elements |-> has, sized |-> TRUE, elements |-> els]
\* a dict whose "elements" is a value len() rejects (a number, null)
JsonUnsized == [kind |-> "dict", has_elements |-> TRUE, sized |-> FALSE, elements |-> <<>>]

Returned(json, msg) == [json |-> json, msg |-> msg, raised |-> FALSE]
Raised == [json |-> JsonNone, msg |-> "", raised |-> TRUE]

\* The statements inside the outer try: what they return, or Raised.
AnalyzeTryBody(inp) ==
    IF inp.key # "key" THEN Returned(JsonNone, "api key error")
    ELSE IF inp.call = "raises" THEN Raised
    ELSE IF inp.text = "invalid" THEN Returned(JsonNone, "parse error")
    ELSE LET v == inp.value
         IN  CASE v.kind = "dict" ->
                    IF ~v.has_elements THEN Returned(JsonNone, "format error")
                    ELSE IF ~v.sized THEN Raised
                    ELSE Returned(v, "found")
               [] v.kind \in {"list", "string"} ->
                    IF v.holds_word THEN Raised ELSE Returned(JsonNone, "format error")
               [] OTHER -> Raised

\* The function without its outer except clause: the exception escapes.
analyze_without_except(inp) ==
    IF ~inp.is_image THEN Returned(JsonNone, "not an image") ELSE AnalyzeTryBody(inp)

analyze_ui_elements(inp) ==
    IF ~inp.is_image THEN Returned(JsonNone, "not an image")
    ELSE LET r == AnalyzeTryBody(inp)
         IN  IF r.raised THEN Returned(JsonNone, "critical error") ELSE r

\* json_data and "elements" in json_data, in set_image
HasElements(json) == json.kind = "dict" /\ json.has_elements

(***************************************************************************)
(* The windows                                                             *)
(***************************************************************************)
FreshScale == [n |-> 1, d |-> 1]

\* A set_image that keeps the collection bs when the detection failed.
IngestedOrKept(h, bs, json) ==
    IF HasElements(json) THEN Ingest(h, json.elements) ELSE [ids |-> bs, heap |-> h]

\* set_image's if/else on json_data: the collection, and the heap holding it,
\* that replace the collection bs.
Ingested(h, bs, json) ==
    IF HasElements(json) THEN Ingest(h, json.elements) ELSE [ids |-> <<>>, heap |-> h]

\* ImageCanvas.set_image on canvas c: the image img, the detection input inp,
\* and ws, the size the layout gives the canvas after window().resize.
set_image(c, img, inp, ws) ==
    LET r == analyze_ui_elements(inp)
        ok == HasElements(r.json)
        ing == Ingested(heap, boxes[c], r.json)
    IN  /\ ok /\ r.json.elements # <<>> => ingests < MaxIngests
        /\ pixmap' = [pixmap EXCEPT ![c] = [set |-> TRUE, w |-> img.w, h |-> img.h]]
        /\ wsize' = [wsize EXCEPT ![c] = ws]
        /\ Update(c, ing.heap, [boxes EXCEPT ![c] = ing.ids], selected_box,
                  deleted_boxes_stack)
        /\ ingests' = IF ok /\ r.json.elements # <<>> THEN ingests + 1 ELSE ingests
        /\ emitted' = <<>>
        /\ snap' = NoSnap

\* MainWindow.open_image_dialog with a file chosen
OpenImage(img, inp, ws) ==
    /\ ~markup_open
    /\ set_image("main", img, inp, ws)
    /\ UNCHANGED <<drag_start_position, original_rect, markup_open, edits>>

\* MainWindow.open_markup_mode: a new FullScreenMarkupWindow with a new
\* canvas, load_canvas_data running set_image on the parent's image path.
OpenMarkup(inp, ws) ==
    /\ ~markup_open
    /\ pixmap["main"].set
    /\ set_image("markup", pixmap["main"], inp, ws)
    /\ markup_open' = TRUE
    /\ UNCHANGED <<drag_start_position, original_rect, edits>>

\* The markup window and its canvas are gone: their fields as constructed.
MarkupGone ==
    /\ markup_open' = FALSE
    /\ pixmap' = [pixmap EXCEPT !["markup"] = NoPixmap]
    /\ drag_start_position' = [drag_start_position EXCEPT !["markup"] = Point(0, 0)]
    /\ original_rect' = [original_rect EXCEPT !["markup"] = NullRect]
    /\ emitted' = <<>>
    /\ snap' = NoSnap
    /\ UNCHANGED <<wsize, ingests, edits>>

\* FullScreenMarkupWindow.close_markup_mode
CloseMarkupMode ==
    /\ markup_open
    /\ MarkupGone
    /\ IF boxes["markup"] # <<>>
       THEN LET bx == [boxes EXCEPT !["main"] = boxes["markup"], !["markup"] = <<>>]
            IN  /\ scale' = [scale EXCEPT !["markup"] = FreshScale,
                                          !["main"] = PaintScale(pixmap["main"], wsize["main"])]
                /\ offset' = [offset EXCEPT !["markup"] = Point(0, 0),
                                            !["main"] = PaintOffset(pixmap["main"], wsize["main"])]
                /\ Commit(PaintedHeap(heap, bx["main"], pixmap["main"], wsize["main"]),
                          bx, [selected_box EXCEPT !["markup"] = None], <<>>)
       ELSE /\ scale' = [scale EXCEPT !["markup"] = FreshScale]
            /\ offset' = [offset EXCEPT !["markup"] = Point(0, 0)]
            /\ Commit(heap, boxes, [selected_box EXCEPT !["markup"] = None], <<>>)

\* The markup dialog closed by its window button: nothing is saved back.
CloseWindow ==
    /\ markup_open
    /\ MarkupGone
    /\ scale' = [scale EXCEPT !["markup"] = FreshScale]
    /\ offset' = [offset EXCEPT !["markup"] = Point(0, 0)]
    /\ Commit(heap, [boxes EXCEPT !["markup"] = <<>>],
              [selected_box EXCEPT !["markup"] = None], <<>>)

\* FullScreenMarkupWindow.undo_delete_box
\* undo_delete_box without its "if self.deleted_boxes_stack": pop() on the
\* empty list raises IndexError.
undo_unguarded ==
    /\ markup_open
    /\ UNCHANGED <<pixmap, wsize, markup_open, ingests, edits,
                   drag_start_position, original_rect>>
    /\ emitted' = <<>>
    /\ snap' = IF deleted_boxes_stack = <<>> THEN UndoneEmpty(boxes["markup"], TRUE)
               ELSE IF snap.op \in {"delete", "undo"} /\ snap.run # <<>>
                    THEN Undone(snap) ELSE NoSnap
    /\ IF deleted_boxes_stack # <<>>
       THEN LET top == deleted_boxes_stack[Len(deleted_boxes_stack)]
            IN  Update("markup", heap,
                       [boxes EXCEPT !["markup"] = Insert(@, top[2], top[1])],
                       selected_box,
                       SubSeq(deleted_boxes_stack, 1, Len(deleted_boxes_stack) - 1))
       ELSE NoUpdate

\* undo_delete_box taking the oldest entry of the stack, pop(0).
undo_oldest_first ==
    /\ markup_open
    /\ UNCHANGED <<pixmap, wsize, markup_open, ingests, edits,
                   drag_start_position, original_rect>>
    /\ emitted' = <<>>
    /\ snap' = IF deleted_boxes_stack = <<>> THEN UndoneEmpty(boxes["markup"], FALSE)
               ELSE IF snap.op \in {"delete", "undo"} /\ snap.run # <<>>
                    THEN Undone(snap) ELSE NoSnap
    /\ IF deleted_boxes_stack # <<>>
       THEN LET top == deleted_boxes_stack[1]
            IN  Update("markup", heap,
                       [boxes EXCEPT !["markup"] = Insert(@, top[2], top[1])],
                       selected_box,
                       SubSeq(deleted_boxes_stack, 2, Len(deleted_boxes_stack)))
       ELSE NoUpdate

undo_delete_box ==
    /\ markup_open
    /\ UNCHANGED <<pixmap, wsize, markup_open, ingests, edits,
                   drag_start_position, original_rect>>
    /\ emitted' = <<>>
    /\ snap' = IF deleted_boxes_stack = <<>> THEN UndoneEmpty(boxes["markup"], FALSE)
               ELSE IF snap.op \in {"delete", "undo"} /\ snap.run # <<>>
                    THEN Undone(snap) ELSE NoSnap
    /\ IF deleted_boxes_stack # <<>>
       THEN LET top == deleted_boxes_stack[Len(deleted_boxes_stack)]
            IN  Update("markup", heap,
                       [boxes EXCEPT !["markup"] = Insert(@, top[2], top[1])],
                       selected_box,
                       SubSeq(deleted_boxes_stack, 1, Len(deleted_boxes_stack) - 1))
       ELSE NoUpdate

\* on_list_item_clicked (MainWindow and FullScreenMarkupWindow) on the item
\* of the i-th box: populate_element_list keeps the items the collection.
ListClick(c, i) ==
    LET sel == selected_box[c]
        box == boxes[c][i]
        h1 == IF sel # None THEN [heap EXCEPT ![sel].is_selected = FALSE] ELSE heap
    IN  /\ i \in 1..Len(boxes[c])
        /\ UNCHANGED <<pixmap, wsize, markup_open, ingests, edits,
                       drag_start_position, original_rect>>
        /\ emitted' = <<>>
        /\ snap' = NoSnap
        /\ Update(c, [h1 EXCEPT ![box].is_selected = TRUE], boxes,
                  [selected_box EXCEPT ![c] = box], deleted_boxes_stack)

\* What MainWindow.save_annotations and FullScreenMarkupWindow.save_markup
\* put in output_data["elements"] for canvas c; nothing when the collection
\* is empty.
SavedElements(c) == IF boxes[c] = <<>> THEN <<>> ELSE ExportElements(heap, boxes[c])

(***************************************************************************)
(* The editing session: one image, its detection, the pointer on a few     *)
(* points of the canvas.                                                   *)
(***************************************************************************)
SessionImage == [w |-> 600, h |-> 400]
SessionSize == [w |-> 600, h |-> 400]
SessionElements == << [id |-> 1, box |-> <<10, 10, 50, 50>>, description |-> "OK button"],
                      [id |-> 2, box |-> <<30, 30, 70, 70>>, description |-> "Name field"] >>
SessionPoints == {Point(20, 20), Point(49, 49), Point(90, 75)}

GoodInput(els) == [is_image |-> TRUE, key |-> "key", call |-> "ok", text |-> "json",
                   value |-> JsonDict(TRUE, els)]
FailedCall == [is_image |-> TRUE, key |-> "key", call |-> "raises", text |-> "json",
               value |-> JsonNone]
NoElementsReply == [is_image |-> TRUE, key |-> "key", call |-> "ok", text |-> "json",
                    value |-> JsonDict(FALSE, <<>>)]
SessionInputs == {GoodInput(SessionElements), FailedCall, NoElementsReply}
Choices == {"delete", "other"}

\* Whether canvas c takes input: the markup window is modal.
Active(c) == IF c = "markup" THEN markup_open ELSE ~markup_open

NoArgs == [fn |-> "none"]
NoResult == [done |-> FALSE]
FnIdle == /\ args = NoArgs
          /\ result = NoResult

\* The modular package's canvas and controller, not constructed.
NoView == [made |-> FALSE]
NoApp == [made |-> FALSE]
PkgIdle == /\ view = NoView
           /\ app = NoApp

InitCanvas ==
    /\ heap = <<>>
    /\ boxes = [c \in Canvases |-> <<>>]
    /\ selected_box = [c \in Canvases |-> None]
    /\ drag_start_position = [c \in Canvases |-> Point(0, 0)]
    /\ original_rect = [c \in Canvases |-> NullRect]
    /\ pixmap = [c \in Canvases |-> NoPixmap]
    /\ wsize = [c \in Canvases |-> SessionSize]
    /\ scale = [c \in Canvases |-> FreshScale]
    /\ offset = [c \in Canvases |-> Point(0, 0)]
    /\ markup_open = FALSE
    /\ deleted_boxes_stack = <<>>
    /\ emitted = <<>>
    /\ snap = NoSnap
    /\ ingests = 0
    /\ edits = 0

Init == InitCanvas /\ FnIdle /\ PkgIdle

\* The main window alone: an image opened, and the pointer on its canvas.
Next ==
    \/ \E p \in SessionPoints : LeftPress("main", p, "other") /\ UNCHANGED <<fn_vars, pkg_vars>>
    \/ \E p \in SessionPoints, menu \in Choices :
          RightPress("main", p, "other", menu) /\ UNCHANGED <<fn_vars, pkg_vars>>
    \/ \E p \in SessionPoints : MouseMove("main", p) /\ UNCHANGED <<fn_vars, pkg_vars>>
    \/ MouseRelease("main") /\ UNCHANGED <<fn_vars, pkg_vars>>
    \/ \E inp \in SessionInputs : OpenImage(SessionImage, inp, SessionSize) /\ UNCHANGED <<fn_vars, pkg_vars>>
    \/ \E i \in 1..Len(boxes["main"]) : ListClick("main", i) /\ UNCHANGED <<fn_vars, pkg_vars>>

Spec == Init /\ [][Next]_vars

\* The main window and the markup window it opens: pointer-downs, pointer-ups,
\* list clicks, deletes and undos in whichever window is active.
MarkupPoints == {Point(20, 20), Point(40, 40), Point(90, 75)}

NextMarkup ==
    \/ \E c \in Canvases, p \in MarkupPoints, dlg \in Choices :
          Active(c) /\ LeftPress(c, p, dlg) /\ UNCHANGED <<fn_vars, pkg_vars>>
    \/ \E c \in Canvases, p \in MarkupPoints, dlg \in Choices, menu \in Choices :
          Active(c) /\ RightPress(c, p, dlg, menu) /\ UNCHANGED <<fn_vars, pkg_vars>>
    \/ \E c \in Canvases : Active(c) /\ MouseRelease(c) /\ UNCHANGED <<fn_vars, pkg_vars>>
    \/ \E inp \in SessionInputs : OpenImage(SessionImage, inp, SessionSize) /\ UNCHANGED <<fn_vars, pkg_vars>>
    \/ \E inp \in SessionInputs : OpenMarkup(inp, SessionSize) /\ UNCHANGED <<fn_vars, pkg_vars>>
    \/ CloseMarkupMode /\ UNCHANGED <<fn_vars, pkg_vars>>
    \/ CloseWindow /\ UNCHANGED <<fn_vars, pkg_vars>>
    \/ undo_delete_box /\ UNCHANGED <<fn_vars, pkg_vars>>
    \/ \E c \in Canvases : \E i \in 1..Len(boxes[c]) :
          Active(c) /\ ListClick(c, i) /\ UNCHANGED <<fn_vars, pkg_vars>>

SpecMarkup == Init /\ [][NextMarkup]_vars

\* Opening alone: images opened on the main window, markup mode entered and
\* left open, the pointer pressed and released, deletes and their undos.
NextOpen ==
    \/ \E c \in Canvases, p \in MarkupPoints, dlg \in Choices :
          Active(c) /\ LeftPress(c, p, dlg) /\ UNCHANGED <<fn_vars, pkg_vars>>
    \/ \E c \in Canvases : Active(c) /\ MouseRelease(c) /\ UNCHANGED <<fn_vars, pkg_vars>>
    \/ \E inp \in SessionInputs : OpenImage(SessionImage, inp, SessionSize) /\ UNCHANGED <<fn_vars, pkg_vars>>
    \/ \E inp \in SessionInputs : OpenMarkup(inp, SessionSize) /\ UNCHANGED <<fn_vars, pkg_vars>>
    \/ undo_delete_box /\ UNCHANGED <<fn_vars, pkg_vars>>
    \/ \E c \in Canvases : \E i \in 1..Len(boxes[c]) :
          Active(c) /\ ListClick(c, i) /\ UNCHANGED <<fn_vars, pkg_vars>>

SpecOpen == Init /\ [][NextOpen]_vars

\* The pointer over the markup window: markup mode entered on an opened
\* image, the pointer pressed, moved and released, deletes and their undos.
NextHover ==
    \/ \E inp \in SessionInputs :
          ~pixmap["main"].set /\ OpenImage(SessionImage, inp, SessionSize) /\ UNCHANGED <<fn_vars, pkg_vars>>
    \/ \E inp \in SessionInputs : OpenMarkup(inp, SessionSize) /\ UNCHANGED <<fn_vars, pkg_vars>>
    \/ \E p \in MarkupPoints, dlg \in Choices :
          LeftPress("markup", p, dlg) /\ markup_open /\ UNCHANGED <<fn_vars, pkg_vars>>
    \/ \E p \in MarkupPoints : markup_open /\ MouseMove("markup", p) /\ UNCHANGED <<fn_vars, pkg_vars>>
    \/ markup_open /\ MouseRelease("markup") /\ UNCHANGED <<fn_vars, pkg_vars>>
    \/ undo_delete_box /\ UNCHANGED <<fn_vars, pkg_vars>>

SpecHover == Init /\ [][NextHover]_vars

(***************************************************************************)
(* Hit testing as a function: main.py's _get_box_at, and the two canvases  *)
(* of src/views, over a collection built from detection boxes and drawn    *)
(* under a scale.                                                          *)
(***************************************************************************)
\* data_models.Rectangle and its contains: both ends inclusive
Rectangle(px, py, w, h) == [x |-> px, y |-> py, width |-> w, height |-> h]
Rectangle_contains(r, px, py) ==
    /\ r.x <= px /\ px <= r.x + r.width
    /\ r.y <= py /\ py <= r.y + r.height

\* data_models.BoundingBox.contains: scaled_rect once the canvas has set it
BoundingBox_contains(e, px, py) ==
    IF e.has_scaled THEN Rectangle_contains(e.scaled_rect, px, py)
    ELSE Rectangle_contains(e.rect, px, py)

\* views/canvas.py, _update_element_positions on one element
_update_element_positions(e, sc, off) ==
    [e EXCEPT !.has_scaled = TRUE,
              !.scaled_rect = Rectangle(TruncDiv(e.rect.x * sc.n, sc.d) + off.x,
                                        TruncDiv(e.rect.y * sc.n, sc.d) + off.y,
                                        TruncDiv(e.rect.width * sc.n, sc.d),
                                        TruncDiv(e.rect.height * sc.n, sc.d))]

\* views/canvas.py, _get_element_at_position: the index of the element returned
RECURSIVE ElementAtFrom(_, _, _)
ElementAtFrom(els, p, i) ==
    IF i = 0 THEN None
    ELSE IF BoundingBox_contains(els[i], p.x, p.y) THEN i
    ELSE ElementAtFrom(els, p, i - 1)

_get_element_at_position(analysis, p) ==
    IF ~analysis.set THEN None ELSE ElementAtFrom(analysis.elements, p, Len(analysis.elements))

\* ui_element.BoundingBox.contains_point
contains_point(bb, px, py) == bb.x1 <= px /\ px <= bb.x2 /\ bb.y1 <= py /\ py <= bb.y2

\* views/image_canvas.py, _get_element_at_point: the index of the element returned
RECURSIVE PointAtFrom(_, _, _)
PointAtFrom(els, p, i) ==
    IF i = 0 THEN None
    ELSE IF contains_point(els[i].bounding_box, p.x, p.y) THEN i
    ELSE PointAtFrom(els, p, i - 1)

_get_element_at_point(analysis, p) ==
    IF ~analysis.set THEN None ELSE PointAtFrom(analysis.elements, p, Len(analysis.elements))

MaxHit == 2   \* elements in a collection under hit test
HitRects == {<<10, 10, 50, 50>>, <<30, 30, 70, 70>>, <<40, 40, 60, 60>>}
HitPoints == {Point(20, 20), Point(45, 45), Point(50, 50), Point(65, 65), Point(90, 90)}
HitImpls == {"main", "canvas", "image_canvas"}
HitSizes == {[w |-> 600, h |-> 400], [w |-> 900, h |-> 600]}

HitArgs ==
    {[fn |-> "hit", impl |-> im, rects |-> rs, p |-> pt, ws |-> sz] :
        im \in HitImpls, rs \in UNION {[1..k -> HitRects] : k \in 0..MaxHit},
        pt \in HitPoints, sz \in HitSizes}

\* The collection each canvas holds for the detection boxes rs, drawn in a
\* widget of size ws, and its hit test at p: the 1-based position of the
\* element returned, or None.
HitTest(a) ==
    LET pm == [set |-> TRUE, w |-> SessionImage.w, h |-> SessionImage.h]
        sc == PaintScale(pm, a.ws)
        off == PaintOffset(pm, a.ws)
        n == Len(a.rects)
    IN  CASE a.impl = "main" ->
               LET ing == Ingest(<<>>, [i \in 1..n |-> [id |-> i, box |-> a.rects[i]]])
                   h == PaintedHeap(ing.heap, ing.ids, pm, a.ws)
                   b == _get_box_at(h, ing.ids, a.p)
               IN  IF b = None THEN None ELSE IndexOf(ing.ids, b)
          [] a.impl = "canvas" ->
               LET els == [i \in 1..n |->
                             _update_element_positions(
                                [rect |-> Rectangle(a.rects[i][1], a.rects[i][2],
                                                    a.rects[i][3] - a.rects[i][1],
                                                    a.rects[i][4] - a.rects[i][2]),
                                 has_scaled |-> FALSE,
                                 scaled_rect |-> Rectangle(0, 0, 0, 0)], sc, off)]
               IN  _get_element_at_position([set |-> TRUE, elements |-> els], a.p)
          [] OTHER ->
               LET els == [i \in 1..n |->
                             [bounding_box |-> [x1 |-> a.rects[i][1], y1 |-> a.rects[i][2],
                                                x2 |-> a.rects[i][3], y2 |-> a.rects[i][4]]]]
               IN  _get_element_at_point([set |-> TRUE, elements |-> els], a.p)

HitStep ==
    /\ args.fn = "hit"
    /\ ~result.done
    /\ result' = [done |-> TRUE, value |-> HitTest(args)]
    /\ UNCHANGED args
    /\ UNCHANGED <<canvas_vars, pkg_vars>>

InitHit == InitCanvas /\ PkgIdle /\ args \in HitArgs /\ result = NoResult
NextHit == HitStep
SpecHit == InitHit /\ [][NextHit]_vars

\* The buttons of the pointer on the main canvas, once an image is open:
\* presses, releases, clicks in the element list, and resizeEvents of the
\* widget between them.
NextPointer ==
    \/ \E inp \in SessionInputs :
          ~pixmap["main"].set /\ OpenImage(SessionImage, inp, SessionSize) /\ UNCHANGED <<fn_vars, pkg_vars>>
    \/ \E p \in SessionPoints : LeftPress("main", p, "other") /\ UNCHANGED <<fn_vars, pkg_vars>>
    \/ \E p \in SessionPoints, menu \in Choices :
          RightPress("main", p, "other", menu) /\ UNCHANGED <<fn_vars, pkg_vars>>
    \/ MouseRelease("main") /\ UNCHANGED <<fn_vars, pkg_vars>>
    \/ \E i \in 1..Len(boxes["main"]) : ListClick("main", i) /\ UNCHANGED <<fn_vars, pkg_vars>>
    \/ \E ws \in HitSizes : ResizeWidget("main", ws) /\ UNCHANGED <<fn_vars, pkg_vars>>

SpecPointer == Init /\ [][NextPointer]_vars

(***************************************************************************)
(* analyze_ui_elements as a function of what its environment does.         *)
(***************************************************************************)
JsonValues ==
    {JsonDict(TRUE, <<>>), JsonDict(TRUE, SessionElements), JsonDict(FALSE, <<>>),
     JsonUnsized, JsonNone}
    \cup {[kind |-> k, holds_word |-> b] : k \in {"list", "string"}, b \in BOOLEAN}

AnalyzeArgs ==
    {[fn |-> "analyze", is_image |-> im, key |-> k, call |-> c, text |-> t, value |-> v] :
        im \in BOOLEAN, k \in {"key", "none"}, c \in {"ok", "raises"},
        t \in {"json", "invalid"}, v \in JsonValues}

AnalyzeStep ==
    /\ args.fn = "analyze"
    /\ ~result.done
    /\ result' = [done |-> TRUE, value |-> analyze_ui_elements(args)]
    /\ UNCHANGED args
    /\ UNCHANGED <<canvas_vars, pkg_vars>>

InitAnalyze == InitCanvas /\ PkgIdle /\ args \in AnalyzeArgs /\ result = NoResult
NextAnalyze == AnalyzeStep
SpecAnalyze == InitAnalyze /\ [][NextAnalyze]_vars

(***************************************************************************)
(* Gestures on one element: an image with one detected box, the pointer    *)
(* pressed on the box or on a handle, moved by a display delta, released.  *)
(***************************************************************************)
GestureScenes ==
    {[img |-> [w |-> 1200, h |-> 800], ws |-> [w |-> 600, h |-> 400], box |-> <<100, 100, 300, 200>>],
     [img |-> [w |-> 1200, h |-> 800], ws |-> [w |-> 600, h |-> 400], box |-> <<101, 101, 301, 201>>],
     [img |-> [w |-> 600, h |-> 400], ws |-> [w |-> 600, h |-> 400], box |-> <<50, 50, 150, 150>>],
     [img |-> [w |-> 600, h |-> 400], ws |-> [w |-> 600, h |-> 400], box |-> <<10, 0, 50, 8>>],
     [img |-> [w |-> 600, h |-> 400], ws |-> [w |-> 600, h |-> 400], box |-> <<500, 300, 640, 380>>]}
GestureDeltas == {Point(0, 0), Point(20, 20), Point(-200, -200), Point(200, 200)}

\* Where the user presses: off every box, in the middle of a box, or on the
\* middle of one of its handles.
PressPoints ==
    {Point(0, 0)}
    \cup {Point(CenterX(heap[b].scaled_rect), CenterY(heap[b].scaled_rect)) :
            b \in Range(boxes["main"])}
    \cup {Point(CenterX(HandleRect(heap[b].scaled_rect, n)),
                CenterY(HandleRect(heap[b].scaled_rect, n))) :
            b \in Range(boxes["main"]), n \in HandleNames}

\* Where the pointer was pressed, for the gesture in progress.
PressedAt ==
    LET sel == selected_box["main"]
        dsp == drag_start_position["main"]
    IN  IF heap[sel].is_resizing THEN dsp
        ELSE Point(dsp.x + heap[sel].scaled_rect.x1, dsp.y + heap[sel].scaled_rect.y1)

InGesture ==
    /\ selected_box["main"] # None
    /\ heap[selected_box["main"]].is_resizing \/ heap[selected_box["main"]].is_dragging

MovePoints ==
    IF InGesture
    THEN {Point(PressedAt.x + d.x, PressedAt.y + d.y) : d \in GestureDeltas}
    ELSE PressPoints

\* One image is opened, and the pointer is pressed while edits remain.
NextGesture ==
    \/ \E sc \in GestureScenes :
          /\ ~pixmap["main"].set
          /\ OpenImage(sc.img, GoodInput(<< [id |-> 1, box |-> sc.box] >>), sc.ws)
          /\ UNCHANGED <<fn_vars, pkg_vars>>
    \/ \E p \in PressPoints :
          edits < MaxEdits /\ LeftPress("main", p, "other") /\ UNCHANGED <<fn_vars, pkg_vars>>
    \/ \E p \in MovePoints : MouseMove("main", p) /\ UNCHANGED <<fn_vars, pkg_vars>>
    \/ MouseRelease("main") /\ UNCHANGED <<fn_vars, pkg_vars>>

SpecGesture == Init /\ [][NextGesture]_vars

(***************************************************************************)
(* The viewport transform as a function: the scale and offset of main.py's *)
(* paintEvent and of src/views/canvas.py's _update_scaled_image for an     *)
(* image in a widget, and the trip of an image-space point to display      *)
(* space (BoundingBox.draw) and back (the drag handler).                   *)
(***************************************************************************)
\* _update_scaled_image: full_pixmap is null when the image has a zero side;
\* the division of line 92 then raises ZeroDivisionError and scale_factor
\* and image_offset keep their constructor values.
_update_scaled_image(img, ws) ==
    LET full == IF img.w = 0 \/ img.h = 0 THEN [w |-> 0, h |-> 0] ELSE img
        sp == ScaledSize(full.w, full.h, ws.w, ws.h)
    IN  IF full.w = 0
        THEN [raised |-> TRUE, scale |-> [n |-> 1, d |-> 1], offset |-> Point(0, 0)]
        ELSE [raised |-> FALSE, scale |-> [n |-> sp.w, d |-> full.w],
              offset |-> Point((ws.w - sp.w) \div 2, (ws.h - sp.h) \div 2)]

\* paintEvent with the scaled size taken from QSize.scale alone.
paint_unfloored(pm, ws) ==
    LET sp == QSizeScaled(pm.w, pm.h, ws.w, ws.h)
    IN  [raised |-> FALSE,
         scale |-> IF pm.w > 0 THEN [n |-> sp.w, d |-> pm.w] ELSE [n |-> 1, d |-> 1],
         offset |-> Point((ws.w - sp.w) \div 2, (ws.h - sp.h) \div 2)]

\* paintEvent's lines 198-200 on the pixmap pm (null: 0 x 0).
paintEvent(pm, ws) ==
    [raised |-> FALSE, scale |-> PaintScale(pm, ws), offset |-> PaintOffset(pm, ws)]

\* The display corner draw computes for a box at image point p, taken back
\* through the drag handler's division.
RoundTrip(pm, ws, p) ==
    LET sc == PaintScale(pm, ws)
        off == PaintOffset(pm, ws)
        sr == ScaledRectOf(QRect(p.x, p.y, 1, 1), sc, off)
    IN  Unscaled(Point(sr.x1, sr.y1), off, sc)

\* Images: none readable (the null pixmap), one pixel wide or high, and the
\* sizes of the sessions; widgets at or above the canvas's minimum size.
ScaleImages ==
    {[w |-> 0, h |-> 0], [w |-> 1, h |-> 2000], [w |-> 2000, h |-> 1],
     [w |-> 300, h |-> 200], [w |-> 600, h |-> 400], [w |-> 1200, h |-> 800]}
PilImages == ScaleImages \cup {[w |-> 0, h |-> 400], [w |-> 600, h |-> 0]}
ScaleSizes == {[w |-> 600, h |-> 400], [w |-> 900, h |-> 600], [w |-> 601, h |-> 400]}
ScalePoints == {Point(0, 0), Point(100, 100), Point(101, 101), Point(1, 199)}

ScaleArgs ==
    {[fn |-> "paint", pm |-> i, ws |-> sz, p |-> Point(0, 0)] :
        i \in ScaleImages, sz \in ScaleSizes}
    \cup {[fn |-> "update_scaled", pm |-> i, ws |-> sz, p |-> Point(0, 0)] :
        i \in PilImages, sz \in ScaleSizes}
    \cup {[fn |-> "round_trip", pm |-> i, ws |-> sz, p |-> pt] :
        i \in ScaleImages \ {[w |-> 0, h |-> 0]}, sz \in ScaleSizes, pt \in ScalePoints}

PaintStep ==
    /\ args.fn = "paint"
    /\ ~result.done
    /\ result' = [done |-> TRUE, value |-> paintEvent(args.pm, args.ws)]
    /\ UNCHANGED args
    /\ UNCHANGED <<canvas_vars, pkg_vars>>

UpdateScaledStep ==
    /\ args.fn = "update_scaled"
    /\ ~result.done
    /\ result' = [done |-> TRUE, value |-> _update_scaled_image(args.pm, args.ws)]
    /\ UNCHANGED args
    /\ UNCHANGED <<canvas_vars, pkg_vars>>

RoundTripStep ==
    /\ args.fn = "round_trip"
    /\ ~result.done
    /\ result' = [done |-> TRUE, value |-> RoundTrip(args.pm, args.ws, args.p)]
    /\ UNCHANGED args
    /\ UNCHANGED <<canvas_vars, pkg_vars>>

InitScale == InitCanvas /\ PkgIdle /\ args \in ScaleArgs /\ result = NoResult
NextScale == PaintStep \/ UpdateScaledStep \/ RoundTripStep
SpecScale == InitScale /\ [][NextScale]_vars

(***************************************************************************)
(* Ingestion of a detection list as a function: the ids the elements get   *)
(* in AIAnalysisService._parse_analysis_response and in main.py's          *)
(* ImageCanvas.set_image.  A JSON id is its kind and its text, so that     *)
(* str() takes the number 1 and the string "1" to the same id.             *)
(***************************************************************************)
MaxEntries == 2

NoId == [has |-> FALSE, kind |-> "none", text |-> ""]
JsonId(k, t) == [has |-> TRUE, kind |-> k, text |-> t]
Digits == <<"1", "2", "3", "4", "5", "6", "7", "8", "9">>
\* str() of a small positive integer, and of a JSON id.
IntText(n) == Digits[n]
Str(id) == id.text

\* The entries _parse_analysis_response keeps: those with a "box" of four
\* coordinates and a "description".
Kept(e) == e.box_ok /\ e.has_description

\* The loop of lines 166-193 over the first n entries: the element ids
\* appended so far.
RECURSIVE ParsedFrom(_, _)
ParsedFrom(els, n) ==
    IF n = 0 THEN <<>>
    ELSE LET elements == ParsedFrom(els, n - 1)
             e == els[n]
         IN  IF ~Kept(e) THEN elements
             ELSE Append(elements,
                         IF e.id.has THEN Str(e.id) ELSE IntText(Len(elements) + 1))

_parse_analysis_response(els) == [raised |-> FALSE, ids |-> ParsedFrom(els, Len(els))]

\* set_image's comprehension: el["description"] raises KeyError when the key
\* is missing; element_id is el.get("id"), None when the entry has no id.
SetImageIds(els) ==
    IF \E i \in 1..Len(els) : ~Kept(els[i])
    THEN [raised |-> TRUE, ids |-> <<>>]
    ELSE [raised |-> FALSE, ids |-> [i \in 1..Len(els) |-> els[i].id]]

IdValues == {NoId, JsonId("int", "1"), JsonId("int", "2"), JsonId("str", "1")}
Entries ==
    {[box_ok |-> TRUE, has_description |-> d, id |-> v] : d \in BOOLEAN, v \in IdValues}
ParseArgs ==
    {[fn |-> "parse", impl |-> im, els |-> es] :
        im \in {"ai_service", "main"},
        es \in UNION {[1..k -> Entries] : k \in 0..MaxEntries}}

ParseStep ==
    /\ args.fn = "parse"
    /\ ~result.done
    /\ result' = [done |-> TRUE,
                  value |-> IF args.impl = "ai_service"
                            THEN _parse_analysis_response(args.els)
                            ELSE SetImageIds(args.els)]
    /\ UNCHANGED args
    /\ UNCHANGED <<canvas_vars, pkg_vars>>

InitParse == InitCanvas /\ PkgIdle /\ args \in ParseArgs /\ result = NoResult
NextParse == ParseStep
SpecParse == InitParse /\ [][NextParse]_vars

(***************************************************************************)
(* Project files: FileManager.save_project and load_project of             *)
(* src/utils/file_utils.py over the BoundingBox dataclass of               *)
(* src/models/data_models.py.                                              *)
(***************************************************************************)
MaxSaved == 2

\* The dictionary save_project writes for one element: id, rect,
\* description, element_type and confidence, and nothing else.
SavedElement(e) ==
    [id |-> e.element_id,
     rect |-> [x |-> e.rect.x, y |-> e.rect.y,
              width |-> e.rect.width, height |-> e.rect.height],
     description |-> e.description,
     element_type |-> e.element_type]

\* The file: analysis_result is null when the project has none.
save_project(project) ==
    [analysis_result |->
        IF project.has_result
        THEN [set |-> TRUE,
              elements |-> [i \in 1..Len(project.elements) |->
                               SavedElement(project.elements[i])]]
        ELSE [set |-> FALSE, elements |-> <<>>]]

\* A loaded element whose is_selected defaults to True.
LoadedAsSaved(d) ==
    [element_id |-> d.id,
     rect |-> Rectangle(d.rect.x, d.rect.y, d.rect.width, d.rect.height),
     description |-> d.description,
     element_type |-> d.element_type,
     is_selected |-> TRUE, is_hovered |-> FALSE,
     is_dragging |-> FALSE, is_resizing |-> FALSE, resize_handle |-> NoHandle]

\* BoundingBox(rect=..., description=..., element_id=..., element_type=...,
\* confidence=...): the other fields take the dataclass defaults.
LoadedElement(d) ==
    [element_id |-> d.id,
     rect |-> Rectangle(d.rect.x, d.rect.y, d.rect.width, d.rect.height),
     description |-> d.description,
     element_type |-> d.element_type,
     is_selected |-> FALSE, is_hovered |-> FALSE,
     is_dragging |-> FALSE, is_resizing |-> FALSE, resize_handle |-> NoHandle]

\* load_project appending each element at the front of the list.
load_project_reversed(file) ==
    LET n == Len(file.analysis_result.elements)
    IN  [has_result |-> file.analysis_result.set,
         elements |-> [i \in 1..n |-> LoadedElement(file.analysis_result.elements[n + 1 - i])]]

load_project(file) ==
    [has_result |-> file.analysis_result.set,
     elements |-> [i \in 1..Len(file.analysis_result.elements) |->
                      LoadedElement(file.analysis_result.elements[i])]]

\* Elements in every interaction state a canvas leaves them in.
LiveElements ==
    {[element_id |-> IF t = "" THEN "2" ELSE "1",
      rect |-> IF t = "" THEN Rectangle(0, 0, 5, 5) ELSE Rectangle(10, 10, 40, 40),
      description |-> t, element_type |-> "button",
      is_selected |-> s, is_hovered |-> h, is_dragging |-> d, is_resizing |-> r,
      resize_handle |-> IF r THEN "top-left" ELSE NoHandle] :
        s \in BOOLEAN, h \in BOOLEAN, d \in BOOLEAN, r \in BOOLEAN,
        t \in {"", "Submit button 'OK'"}}

ProjectArgs ==
    {[fn |-> "project", project |-> [has_result |-> hr, elements |-> es]] :
        hr \in BOOLEAN, es \in UNION {[1..k -> LiveElements] : k \in 0..MaxSaved}}

ProjectStep ==
    /\ args.fn = "project"
    /\ ~result.done
    /\ result' = [done |-> TRUE, value |-> load_project(save_project(args.project))]
    /\ UNCHANGED args
    /\ UNCHANGED <<canvas_vars, pkg_vars>>

InitProject == InitCanvas /\ PkgIdle /\ args \in ProjectArgs /\ result = NoResult
NextProject == ProjectStep
SpecProject == InitProject /\ [][NextProject]_vars

(***************************************************************************)
(* Classification of a description: _classify_element_type of              *)
(* src/services/ai_service.py and get_element_type_from_description of     *)
(* src/models/ui_element.py.  Descriptions are strings; "word in s" is     *)
(* Python's substring test and lower() maps the capital letters.           *)
(***************************************************************************)
LowerChar(ch) ==
    LET UpperCase == "ABCDEFGHIJKLMNOPQRSTUVWXYZ"
        LowerCase == "abcdefghijklmnopqrstuvwxyz"
    IN  IF \E k \in 1..Len(UpperCase) : SubSeq(UpperCase, k, k) = ch
        THEN LET k == CHOOSE k \in 1..Len(UpperCase) : SubSeq(UpperCase, k, k) = ch
             IN  SubSeq(LowerCase, k, k)
        ELSE ch

RECURSIVE lower(_)
lower(str) ==
    IF Len(str) = 0 THEN ""
    ELSE LowerChar(SubSeq(str, 1, 1)) \o lower(SubSeq(str, 2, Len(str)))

\* word in str
In(word, str) ==
    \E i \in 1..(Len(str) - Len(word) + 1) : SubSeq(str, i, i + Len(word) - 1) = word

\* any(word in str for word in words)
AnyIn(words, str) == \E k \in 1..Len(words) : In(words[k], str)

\* The if/elif chain of lines 129-154 on the lowered description.
_classify_element_type_of(description_lower) ==
        IF AnyIn(<<"button", "btn", "clickable">>, description_lower) THEN "button"
        ELSE IF AnyIn(<<"input", "field", "textbox", "text box">>, description_lower) THEN "input"
        ELSE IF AnyIn(<<"label", "heading", "title">>, description_lower) THEN "label"
        ELSE IF AnyIn(<<"image", "img", "photo", "picture">>, description_lower) THEN "image"
        ELSE IF AnyIn(<<"link", "hyperlink", "url">>, description_lower) THEN "link"
        ELSE IF AnyIn(<<"menu", "navigation", "nav">>, description_lower) THEN "menu"
        ELSE IF AnyIn(<<"checkbox", "check box">>, description_lower) THEN "checkbox"
        ELSE IF AnyIn(<<"radio", "radio button">>, description_lower) THEN "radio"
        ELSE IF AnyIn(<<"dropdown", "select", "combobox">>, description_lower) THEN "dropdown"
        ELSE IF AnyIn(<<"icon", "symbol">>, description_lower) THEN "icon"
        ELSE IF AnyIn(<<"container", "panel", "box", "card">>, description_lower) THEN "container"
        ELSE IF AnyIn(<<"text", "paragraph", "content">>, description_lower) THEN "text"
        ELSE "unknown"

\* _classify_element_type comparing the description as it is written.
classify_as_written(description) == _classify_element_type_of(description)

_classify_element_type(description) == _classify_element_type_of(lower(description))

\* The chain of ui_element.py with the label test moved to the front.
label_first(description) ==
    LET description_lower == lower(description)
    IN  IF AnyIn(<<"label", "text", "heading", "title">>, description_lower) THEN "label"
        ELSE IF AnyIn(<<"button", "btn", "clickable">>, description_lower) THEN "button"
        ELSE IF AnyIn(<<"input", "field", "textbox", "text field">>, description_lower) THEN "input"
        ELSE IF AnyIn(<<"image", "img", "picture", "photo">>, description_lower) THEN "image"
        ELSE IF AnyIn(<<"icon", "symbol">>, description_lower) THEN "icon"
        ELSE IF AnyIn(<<"menu", "navigation", "nav">>, description_lower) THEN "menu"
        ELSE IF AnyIn(<<"checkbox", "check box">>, description_lower) THEN "checkbox"
        ELSE IF AnyIn(<<"radio", "radio button">>, description_lower) THEN "radio"
        ELSE IF AnyIn(<<"dropdown", "select", "combobox">>, description_lower) THEN "dropdown"
        ELSE IF AnyIn(<<"link", "hyperlink">>, description_lower) THEN "link"
        ELSE IF AnyIn(<<"container", "panel", "box", "card">>, description_lower) THEN "container"
        ELSE "other"

get_element_type_from_description(description) ==
    LET description_lower == lower(description)
    IN  IF AnyIn(<<"button", "btn", "clickable">>, description_lower) THEN "button"
        ELSE IF AnyIn(<<"input", "field", "textbox", "text field">>, description_lower) THEN "input"
        ELSE IF AnyIn(<<"label", "text", "heading", "title">>, description_lower) THEN "label"
        ELSE IF AnyIn(<<"image", "img", "picture", "photo">>, description_lower) THEN "image"
        ELSE IF AnyIn(<<"icon", "symbol">>, description_lower) THEN "icon"
        ELSE IF AnyIn(<<"menu", "navigation", "nav">>, description_lower) THEN "menu"
        ELSE IF AnyIn(<<"checkbox", "check box">>, description_lower) THEN "checkbox"
        ELSE IF AnyIn(<<"radio", "radio button">>, description_lower) THEN "radio"
        ELSE IF AnyIn(<<"dropdown", "select", "combobox">>, description_lower) THEN "dropdown"
        ELSE IF AnyIn(<<"link", "hyperlink">>, description_lower) THEN "link"
        ELSE IF AnyIn(<<"container", "panel", "box", "card">>, description_lower) THEN "container"
        ELSE "other"

\* Descriptions: nothing, one word, or two words with a space between.
Words ==
    {"Button", "SUBMIT", "Text", "information", "ok", "box", "btn", "button",
     "card", "check", "checkbox", "clickable", "combobox", "container", "content", "dropdown",
     "field", "heading", "hyperlink", "icon", "image", "img", "input", "label",
     "link", "menu", "nav", "navigation", "panel", "paragraph", "photo", "picture",
     "radio", "select", "symbol", "text", "textbox", "title", "url"}
Descriptions ==
    {""} \cup Words \cup {a \o " " \o b : a \in Words, b \in Words}

ClassifyArgs ==
    {[fn |-> "classify", impl |-> im, description |-> d] :
        im \in {"ai_service", "ui_element"}, d \in Descriptions}

ClassifyStep ==
    /\ args.fn = "classify"
    /\ ~result.done
    /\ result' = [done |-> TRUE,
                  value |-> IF args.impl = "ai_service"
                            THEN _classify_element_type(args.description)
                            ELSE get_element_type_from_description(args.description)]
    /\ UNCHANGED args
    /\ UNCHANGED <<canvas_vars, pkg_vars>>

InitClassify == InitCanvas /\ PkgIdle /\ args \in ClassifyArgs /\ result = NoResult
NextClassify == ClassifyStep
SpecClassify == InitClassify /\ [][NextClassify]_vars




(***************************************************************************)
(* Properties                                                              *)
(***************************************************************************)
\* The positions, in canvas c's collection, of the boxes with is_selected.
SelectedIn(c) == {i \in 1..Len(boxes[c]) : heap[boxes[c][i]].is_selected}

\* C1: after any sequence of presses, releases, list clicks, deletes, undos
\* and close-markup-mode operations, at most one element of each canvas's
\* collection has is_selected = true.
C1_AtMostOneSelected == \A c \in Canvases : Cardinality(SelectedIn(c)) <= 1

\* Whether the i-th detection box of a hit test's arguments contains its
\* point, as that canvas draws and tests it.
HitContains(a, i) ==
    LET pm == [set |-> TRUE, w |-> SessionImage.w, h |-> SessionImage.h]
        sc == PaintScale(pm, a.ws)
        off == PaintOffset(pm, a.ws)
        b == a.rects[i]
    IN  CASE a.impl = "main" ->
               RectContains(ScaledRectOf(QRect(b[1], b[2], b[3] - b[1], b[4] - b[2]), sc, off), a.p)
          [] a.impl = "canvas" ->
               LET x == TruncDiv(b[1] * sc.n, sc.d) + off.x
                   y == TruncDiv(b[2] * sc.n, sc.d) + off.y
                   w == TruncDiv((b[3] - b[1]) * sc.n, sc.d)
                   h == TruncDiv((b[4] - b[2]) * sc.n, sc.d)
               IN  x <= a.p.x /\ a.p.x <= x + w /\ y <= a.p.y /\ a.p.y <= y + h
          [] OTHER -> b[1] <= a.p.x /\ a.p.x <= b[3] /\ b[2] <= a.p.y /\ a.p.y <= b[4]

HitsOf(a) == {i \in 1..Len(a.rects) : HitContains(a, i)}

\* C2: for every collection of possibly overlapping elements and every
\* point, hit testing returns the last element of the collection among those
\* whose rectangle contains the point, and None exactly when none contains it.
C2_HitIsLastContaining ==
    (args.fn = "hit" /\ result.done) =>
        /\ (result.value = None) <=> (HitsOf(args) = {})
        /\ HitsOf(args) # {} =>
              /\ result.value \in HitsOf(args)
              /\ \A i \in HitsOf(args) : i <= result.value

\* C2's case: two or more elements contain the point, and the test has returned.
C2_OverlapTested ==
    /\ args.fn = "hit" /\ result.done
    /\ Cardinality(HitsOf(args)) >= 2
    /\ result.value = Len(args.rects)

\* C3: deleting an element through the action dialog and then immediately
\* calling undo_delete_box leaves the collection with the same elements in
\* the same order as before the delete, the element at its original index.
C3_UndoRestores == snap.op = "undo" => boxes["markup"] = snap.before

\* C3's case: the first of two elements deleted from the dialog, then undone.
C3_FirstDeletedUndone ==
    /\ snap.op = "undo"
    /\ Len(snap.before) = 2
    /\ deleted_boxes_stack = <<>>
    /\ selected_box["markup"] = snap.before[1]

\* The selected box of the main canvas, in a gesture
Grabbed == heap[selected_box["main"]]

\* A pointer-move of a resize gesture on the main canvas.
ResizeMove ==
    /\ InGesture
    /\ Grabbed.is_resizing /\ Grabbed.resize_handle # NoHandle
    /\ \E p \in MovePoints : MouseMove("main", p)

\* C4: after every pointer-move of a resize gesture, whatever the handle, the
\* original rectangle and the pointer position, the element's rectangle has
\* width >= 10 and height >= 10.
C4_ResizeKeepsMinimum ==
    [][ResizeMove =>
          /\ Width(heap'[selected_box["main"]].rect) >= 10
          /\ Height(heap'[selected_box["main"]].rect) >= 10]_vars

\* The first pointer-move after a left press on an element: a drag from the
\* press point PressedAt to p.
FirstDragTo(p) ==
    /\ InGesture
    /\ Grabbed.is_dragging /\ ~Grabbed.is_resizing
    /\ emitted = <<selected_box["main"]>>
    /\ MouseMove("main", p)

\* The rectangle r displaced by the display delta from p0 to p1 under the
\* scale sc, when that delta is a whole number of image pixels.
Displaced(r, p0, p1, sc) ==
    MoveTo(r, Point(r.x1 + ((p1.x - p0.x) * sc.d) \div sc.n,
                    r.y1 + ((p1.y - p0.y) * sc.d) \div sc.n))

WholeDelta(p0, p1, sc) ==
    /\ ((p1.x - p0.x) * sc.d) % sc.n = 0
    /\ ((p1.y - p0.y) * sc.d) % sc.n = 0

InsideImage(r) ==
    /\ r.x1 >= 0 /\ r.y1 >= 0
    /\ r.x1 + Width(r) <= img_w("main") /\ r.y1 + Height(r) <= img_h("main")

\* C5: a drag from p0 to p1 under one viewport transform puts the element's
\* top-left at its old top-left plus (p1 - p0)/scale whenever that keeps the
\* rectangle inside the image, and leaves its width and height unchanged.
C5_DragFollowsPointer ==
    [][\A p \in MovePoints :
          (/\ FirstDragTo(p)
           /\ WholeDelta(PressedAt, p, scale["main"])
           /\ InsideImage(Displaced(Grabbed.rect, PressedAt, p, scale["main"])))
          => heap'[selected_box["main"]].rect =
                Displaced(Grabbed.rect, PressedAt, p, scale["main"])]_vars

\* A pointer-move of a bottom-right resize to a point above and left of the
\* element's top-left corner.
BottomRightPast(p) ==
    /\ InGesture
    /\ Grabbed.is_resizing /\ Grabbed.resize_handle = "bottom-right"
    /\ p.x < Grabbed.scaled_rect.x1 /\ p.y < Grabbed.scaled_rect.y1
    /\ MouseMove("main", p)

\* C6: a bottom-right resize dragged past the element's top-left corner
\* leaves width exactly 10 and height exactly 10, x and y unchanged.
C6_BottomRightClampsToTen ==
    [][\A p \in MovePoints :
          BottomRightPast(p) =>
             /\ heap'[selected_box["main"]].rect.x1 = original_rect["main"].x1
             /\ heap'[selected_box["main"]].rect.y1 = original_rect["main"].y1
             /\ Width(heap'[selected_box["main"]].rect) = 10
             /\ Height(heap'[selected_box["main"]].rect) = 10]_vars

\* A left press on canvas c at a point that hits no element and no handle of
\* the selected element.
EmptyPress(c, p) ==
    /\ Active(c)
    /\ _get_box_at(heap, boxes[c], p) = None
    /\ selected_box[c] # None => get_resize_handle_at(heap[selected_box[c]], p) = NoHandle
    /\ LeftPress(c, p, "other")

\* C7: a left press that hits no element and no handle clears is_selected on
\* the previously selected element, leaves no element of the collection
\* selected, and emits a selection event carrying None.
C7_EmptyPressDeselects ==
    [][\A c \in Canvases : \A p \in MarkupPoints :
          EmptyPress(c, p) =>
             /\ selected_box[c] \in DOMAIN heap' => ~heap'[selected_box[c]].is_selected
             /\ \A i \in 1..Len(boxes'[c]) : ~heap'[boxes'[c][i]].is_selected
             /\ selected_box'[c] = None
             /\ emitted' = <<None>>]_vars

\* C8: export writes, for every element, box = [x, y, x+width, y+height] of
\* its current rectangle: the ingested box itself while no gesture has edited
\* the element, the current geometry after drags and resizes.
C8_ExportIsCurrentGeometry ==
    \A i \in 1..Len(boxes["main"]) :
        LET b == heap[boxes["main"][i]]
            e == SavedElements("main")[i].box
        IN  /\ e[1] = b.rect.x1 /\ e[2] = b.rect.y1
            /\ e[3] - e[1] = Width(b.rect) /\ e[4] - e[2] = Height(b.rect)
            /\ ~b.edited => e = b.src_box

\* C8's case: an element a gesture has moved or resized, exported.
C8_EditedExported ==
    \E i \in 1..Len(boxes["main"]) :
        /\ heap[boxes["main"][i]].edited
        /\ SavedElements("main")[i].box # heap[boxes["main"][i]].src_box

\* The failure causes of analyze_ui_elements: the argument is no image, the
\* key is not retrieved, the model call raises, the text is not JSON, the
\* JSON has no "elements" key.
FailureCause(a) ==
    \/ ~a.is_image
    \/ a.key # "key"
    \/ a.call = "raises"
    \/ a.text = "invalid"
    \/ ~HasElements(a.value)

\* C9: for each failure cause analyze_ui_elements returns (None, a non-empty
\* message) and lets no exception escape.
C9_FailureReturnsNoneAndMessage ==
    (args.fn = "analyze" /\ result.done /\ FailureCause(args)) =>
        /\ ~result.value.raised
        /\ result.value.json = JsonNone
        /\ result.value.msg # ""

\* C9's case: the model call raised inside the function, which has returned.
C9_CallRaised ==
    /\ args.fn = "analyze" /\ result.done
    /\ args.is_image /\ args.key = "key" /\ args.call = "raises"

\* open_image_dialog whose detection call fails
FailedOpen ==
    \E inp \in SessionInputs :
        /\ ~HasElements(analyze_ui_elements(inp).json)
        /\ OpenImage(SessionImage, inp, SessionSize)

HoveredIn(c) == {i \in 1..Len(boxes[c]) : heap[boxes[c][i]].is_hovered}

\* C11: after any sequence of pointer events, deletes and undos, at most one
\* element of each canvas's collection has is_hovered = true, also right
\* after an undo has reinserted a deleted element.
C11_AtMostOneHovered == \A c \in Canvases : Cardinality(HoveredIn(c)) <= 1

\* C12: for every image of positive width and height, every widget size and
\* every image-space point p, p taken to display space as draw does and back
\* as the drag handler does is p again.
C12_RoundTripIsIdentity ==
    (args.fn = "round_trip" /\ result.done) => result.value = args.p

\* C13: for an image of positive width and height the scale paintEvent
\* computes is a finite, strictly positive number, whatever the widget size.
C13_ScalePositive ==
    (args.fn = "paint" /\ result.done /\ args.pm.w > 0 /\ args.pm.h > 0)
        => (~result.value.raised /\ result.value.scale.n > 0 /\ result.value.scale.d > 0)

\* An image so narrow or so flat that its aspect-scaled side rounds to zero
\* pixels has been painted.
C13_ThinImagePainted ==
    /\ args.fn = "paint" /\ result.done
    /\ args.pm.w > 0 /\ args.pm.h > 0
    /\ LET q == QSizeScaled(args.pm.w, args.pm.h, args.ws.w, args.ws.h)
       IN  q.w = 0 \/ q.h = 0

\* C14: for an image of width or height 0 the viewport scale is computed
\* without a division by zero and is 1, in main.py's paintEvent and in
\* src/views/canvas.py's _update_scaled_image alike.
C14_ZeroSideGivesScaleOne ==
    (args.fn \in {"paint", "update_scaled"} /\ result.done
        /\ (args.pm.w = 0 \/ args.pm.h = 0))
        => (~result.value.raised /\ result.value.scale.n = result.value.scale.d)

\* The ids the entries of the parsed list carry are pairwise distinct.
CarriedIdsDistinct(els) ==
    \A i, j \in 1..Len(els) :
        (i # j /\ els[i].id.has /\ els[j].id.has) => Str(els[i].id) # Str(els[j].id)

\* C15: the elements made from a detection list have pairwise distinct ids,
\* an entry that carries an id keeping it and an entry without one getting
\* the 1-based sequence index (checked for lists whose own ids are distinct).
C15_IdsPairwiseDistinct ==
    (args.fn = "parse" /\ result.done /\ ~result.value.raised
        /\ CarriedIdsDistinct(args.els))
        => \A i, j \in 1..Len(result.value.ids) :
              i # j => result.value.ids[i] # result.value.ids[j]

\* C16: undo called with the undo stack empty raises no error and changes
\* neither the collection nor the stack.
C16_EmptyUndoChangesNothing ==
    [][(deleted_boxes_stack = <<>> /\ snap'.op = "undo_empty")
          => /\ ~snap'.raised
             /\ boxes' = boxes /\ heap' = heap /\ selected_box' = selected_box
             /\ deleted_boxes_stack' = deleted_boxes_stack]_vars

\* Undo has been called on an empty stack over a collection that has boxes.
C16_EmptyUndoOverBoxes == snap.op = "undo_empty" /\ boxes["markup"] # <<>>

\* C17: every element of a project returned by load_project has
\* is_selected, is_hovered, is_dragging and is_resizing false and no resize
\* handle, whatever interaction state the elements had when saved.
C17_LoadedElementsAreIdle ==
    (args.fn = "project" /\ result.done)
        => \A i \in 1..Len(result.value.elements) :
              LET e == result.value.elements[i]
              IN  /\ ~e.is_selected /\ ~e.is_hovered
                  /\ ~e.is_dragging /\ ~e.is_resizing
                  /\ e.resize_handle = NoHandle

\* A project saved while an element was selected and being resized has been
\* loaded back with that element.
C17_BusyElementLoaded ==
    /\ args.fn = "project" /\ result.done
    /\ \E i \in 1..Len(args.project.elements) :
          /\ args.project.elements[i].is_selected
          /\ args.project.elements[i].is_resizing
          /\ i <= Len(result.value.elements)

\* The categories in their order of test, each with its keywords: as the
\* statement under C18 lists them, and as the two classifiers have them.
ClaimedKeywords ==
    <<[category |-> "button", keywords |-> <<"button", "btn">>],
      [category |-> "input", keywords |-> <<"input", "field", "textbox">>],
      [category |-> "label", keywords |-> <<"label", "heading", "title">>],
      [category |-> "image", keywords |-> <<"image", "img", "photo">>],
      [category |-> "link", keywords |-> <<"link", "hyperlink">>],
      [category |-> "menu", keywords |-> <<"menu", "nav">>],
      [category |-> "checkbox", keywords |-> <<"checkbox">>],
      [category |-> "radio", keywords |-> <<"radio">>],
      [category |-> "dropdown", keywords |-> <<"dropdown", "select", "combobox">>],
      [category |-> "icon", keywords |-> <<"icon", "symbol">>],
      [category |-> "container", keywords |-> <<"container", "panel", "card">>],
      [category |-> "text", keywords |-> <<"text", "paragraph">>]>>

ServiceKeywords ==
    <<[category |-> "button", keywords |-> <<"button", "btn", "clickable">>],
      [category |-> "input", keywords |-> <<"input", "field", "textbox", "text box">>],
      [category |-> "label", keywords |-> <<"label", "heading", "title">>],
      [category |-> "image", keywords |-> <<"image", "img", "photo", "picture">>],
      [category |-> "link", keywords |-> <<"link", "hyperlink", "url">>],
      [category |-> "menu", keywords |-> <<"menu", "navigation", "nav">>],
      [category |-> "checkbox", keywords |-> <<"checkbox", "check box">>],
      [category |-> "radio", keywords |-> <<"radio", "radio button">>],
      [category |-> "dropdown", keywords |-> <<"dropdown", "select", "combobox">>],
      [category |-> "icon", keywords |-> <<"icon", "symbol">>],
      [category |-> "container", keywords |-> <<"container", "panel", "box", "card">>],
      [category |-> "text", keywords |-> <<"text", "paragraph", "content">>]>>

ElementKeywords ==
    <<[category |-> "button", keywords |-> <<"button", "btn", "clickable">>],
      [category |-> "input", keywords |-> <<"input", "field", "textbox", "text field">>],
      [category |-> "label", keywords |-> <<"label", "text", "heading", "title">>],
      [category |-> "image", keywords |-> <<"image", "img", "picture", "photo">>],
      [category |-> "icon", keywords |-> <<"icon", "symbol">>],
      [category |-> "menu", keywords |-> <<"menu", "navigation", "nav">>],
      [category |-> "checkbox", keywords |-> <<"checkbox", "check box">>],
      [category |-> "radio", keywords |-> <<"radio", "radio button">>],
      [category |-> "dropdown", keywords |-> <<"dropdown", "select", "combobox">>],
      [category |-> "link", keywords |-> <<"link", "hyperlink">>],
      [category |-> "container", keywords |-> <<"container", "panel", "box", "card">>]>>

\* The positions of the categories of a table with a keyword inside str.
Matching(tbl, str) == {k \in 1..Len(tbl) : AnyIn(tbl[k].keywords, lower(str))}

\* The first category of the table with a keyword inside str, else default.
FirstMatch(tbl, str, default) ==
    IF Matching(tbl, str) = {} THEN default
    ELSE tbl[CHOOSE k \in Matching(tbl, str) : \A m \in Matching(tbl, str) : k <= m].category

\* C18 (as stated): the service's classifier returns the first category, in
\* the order Button, Input, Label, Image, Link, Menu, Checkbox, Radio,
\* Dropdown, Icon, Container, Text, one of whose listed keywords occurs in
\* the description whatever its case, and Unknown when none occurs.
C18_FirstListedCategory ==
    (args.fn = "classify" /\ args.impl = "ai_service" /\ result.done)
        => result.value = FirstMatch(ClaimedKeywords, args.description, "unknown")

\* C18 (amended): the same with the keyword lists the classifier has: also
\* clickable for Button, "text box" for Input, picture for Image, url for
\* Link, navigation for Menu, "check box" for Checkbox, "radio button" for
\* Radio, box for Container and content for Text.
C18_FirstCategoryOfFullLists ==
    (args.fn = "classify" /\ args.impl = "ai_service" /\ result.done)
        => result.value = FirstMatch(ServiceKeywords, args.description, "unknown")

\* A description with a capital letter and keywords of two categories has
\* been classified by the service.
C18_MixedCaseTwoCategories ==
    /\ args.fn = "classify" /\ args.impl = "ai_service" /\ result.done
    /\ lower(args.description) # args.description
    /\ Cardinality(Matching(ServiceKeywords, args.description)) >= 2

\* C19: get_element_type_from_description is a case-insensitive first-match
\* classifier in the order button, input, label, image, icon, menu, checkbox,
\* radio, dropdown, link, container: a button keyword gives BUTTON even next
\* to "text"; "input" or "field" without a button keyword gives INPUT even
\* next to "text"; "icon" without a keyword of an earlier category gives
\* ICON; no keyword gives OTHER.
C19_FirstMatchInOrder ==
    (args.fn = "classify" /\ args.impl = "ui_element" /\ result.done)
        => LET d == lower(args.description)
               hit == Matching(ElementKeywords, args.description)
           IN  /\ result.value = FirstMatch(ElementKeywords, args.description, "other")
               /\ 1 \in hit => result.value = "button"
               /\ ((In("input", d) \/ In("field", d)) /\ 1 \notin hit)
                     => result.value = "input"
               /\ (In("icon", d) /\ hit \cap (1..4) = {}) => result.value = "icon"
               /\ hit = {} => result.value = "other"

\* A description with a capital letter, a button keyword and "text" has been
\* classified by UIElement.
C19_ButtonWithText ==
    /\ args.fn = "classify" /\ args.impl = "ui_element" /\ result.done
    /\ lower(args.description) # args.description
    /\ In("text", lower(args.description))
    /\ 1 \in Matching(ElementKeywords, args.description)

\* A left press on canvas c at p that hits no resize handle of the selected
\* element and hits an element, the action dialog (markup) closed otherwise
\* than by delete.
HitPress(c, p) ==
    /\ Active(c)
    /\ _get_box_at(heap, boxes[c], p) # None
    /\ selected_box[c] # None => get_resize_handle_at(heap[selected_box[c]], p) = NoHandle
    /\ LeftPress(c, p, "other")

\* C20: a left press that hits no resize handle of the selected element and
\* hits the element e, the topmost at the point, leaves e the only selected
\* element, the element selected before (if another) with is_selected false,
\* e.is_dragging true with the grab offset the press point minus e's display
\* top-left, and emits exactly one selection event, carrying e.
C20_HitPressSelectsAndGrabs ==
    [][\A c \in Canvases : \A p \in MarkupPoints :
          HitPress(c, p) =>
             LET e == _get_box_at(heap, boxes[c], p)
                 shown == ScaledRectOf(heap[e].rect, scale[c], offset[c])
             IN  /\ \A i \in 1..Len(boxes'[c]) :
                       heap'[boxes'[c][i]].is_selected <=> boxes'[c][i] = e
                 /\ (selected_box[c] # None /\ selected_box[c] # e
                       /\ selected_box[c] \in DOMAIN heap')
                       => ~heap'[selected_box[c]].is_selected
                 /\ selected_box'[c] = e
                 /\ heap'[e].is_dragging
                 /\ drag_start_position'[c] = Point(p.x - shown.x1, p.y - shown.y1)
                 /\ emitted' = <<e>>]_vars

\* A left press on canvas c at p inside a resize handle of the selected
\* element.
HandlePress(c, p) ==
    /\ Active(c)
    /\ selected_box[c] # None
    /\ get_resize_handle_at(heap[selected_box[c]], p) # NoHandle
    /\ LeftPress(c, p, "other")

\* C21: a left press inside a resize handle of the selected element sets
\* is_resizing, records the handle, takes the element's current image-space
\* rectangle as original_rect and the press point as anchor, even with
\* another element's body under the point; it changes no element's
\* is_selected and emits no selection event.
C21_HandlePressStartsResize ==
    [][\A c \in Canvases : \A p \in SessionPoints :
          HandlePress(c, p) =>
             LET sel == selected_box[c]
             IN  /\ heap'[sel].is_resizing
                 /\ heap'[sel].resize_handle = get_resize_handle_at(heap[sel], p)
                 /\ original_rect'[c] = heap[sel].rect
                 /\ drag_start_position'[c] = p
                 /\ selected_box' = selected_box
                 /\ \A b \in DOMAIN heap : heap'[b].is_selected = heap[b].is_selected
                 /\ emitted' = <<>>]_vars

\* The selected element is being resized from a handle pressed where the
\* topmost element under the press point is another one.
C21_HandleOverOtherBody ==
    \E c \in Canvases :
       /\ selected_box[c] # None
       /\ heap[selected_box[c]].is_resizing
       /\ heap[selected_box[c]].resize_handle # NoHandle
       /\ _get_box_at(heap, boxes[c], drag_start_position[c]) \notin {None, selected_box[c]}

\* C22: after any pointer-up no element of the collection has is_dragging
\* or is_resizing set or a resize handle recorded, whatever presses and
\* moves came before, so that a move without a new press changes no
\* rectangle.
C22_ReleaseLeavesNoGesture ==
    [][\A c \in Canvases :
          (Active(c) /\ MouseRelease(c)) =>
             \A i \in 1..Len(boxes'[c]) :
                LET b == heap'[boxes'[c][i]]
                IN  ~b.is_dragging /\ ~b.is_resizing /\ b.resize_handle = NoHandle]_vars

\* C23: from the press that starts a drag or a resize to the matching
\* release, the scale and offset that take pointer positions to image space
\* do not change, also when a resize or repaint of the widget comes between
\* the events of the gesture.
C23_TransformFixedInGesture ==
    [][(/\ InGesture
        /\ selected_box'["main"] = selected_box["main"]
        /\ heap'[selected_box["main"]].is_dragging = Grabbed.is_dragging
        /\ heap'[selected_box["main"]].is_resizing = Grabbed.is_resizing)
          => (scale'["main"] = scale["main"] /\ offset'["main"] = offset["main"])]_vars

\* A pointer-move on canvas c to p while its selected element, if any, is
\* neither dragged nor resized.
IdleMove(c, p) ==
    /\ Active(c)
    /\ selected_box[c] # None
          => (~heap[selected_box[c]].is_dragging /\ ~heap[selected_box[c]].is_resizing)
    /\ MouseMove(c, p)

\* C24: after a pointer-move processed while no element is dragged or
\* resized, the element with is_hovered set is exactly the topmost element
\* whose display rectangle contains the pointer, and none is hovered when
\* none contains it.
C24_HoverIsTopmostUnderPointer ==
    [][\A c \in Canvases : \A p \in SessionPoints :
          IdleMove(c, p) =>
             \A i \in 1..Len(boxes'[c]) :
                heap'[boxes'[c][i]].is_hovered
                   <=> boxes'[c][i] = _get_box_at(heap', boxes'[c], p)]_vars

\* A right press on canvas c at p that hits an element while the selected
\* element, if any, is neither dragged nor resized; the action dialog and
\* the context menu are closed without a delete.
RightHit(c, p) ==
    /\ Active(c)
    /\ _get_box_at(heap, boxes[c], p) # None
    /\ selected_box[c] # None
          => (~heap[selected_box[c]].is_dragging /\ ~heap[selected_box[c]].is_resizing)
    /\ RightPress(c, p, "other", "other")

\* C25: a right press on an element makes it the only selected element and
\* starts no drag: the pointer-moves that follow it, with no left press in
\* between, change no element's rectangle (the element is left neither
\* dragged nor resized, and a move outside a gesture writes no rectangle).
C25_RightPressSelectsWithoutDrag ==
    /\ [][\A c \in Canvases : \A p \in SessionPoints :
             RightHit(c, p) =>
                LET e == _get_box_at(heap, boxes[c], p)
                IN  /\ selected_box'[c] = e
                    /\ \A i \in 1..Len(boxes'[c]) :
                          heap'[boxes'[c][i]].is_selected <=> boxes'[c][i] = e
                    /\ ~heap'[e].is_dragging /\ ~heap'[e].is_resizing]_vars
    /\ [][\A c \in Canvases : \A p \in SessionPoints :
             IdleMove(c, p) => \A b \in DOMAIN heap : heap'[b].rect = heap[b].rect]_vars

\* A press on canvas c, left or right, with whatever the user chooses in
\* the action dialog and in the context menu.
AnyPress(c) ==
    /\ Active(c)
    /\ \E p \in MarkupPoints : \E dlg \in Choices :
          \/ LeftPress(c, p, dlg)
          \/ \E menu \in Choices : RightPress(c, p, dlg, menu)

\* C26: every delete that removes an element from a canvas's collection,
\* the context menu's delete_element as well as the action dialog's
\* delete_box, pushes (element, original index) on the undo stack.
C26_DeletePushesUndo ==
    [][\A c \in Canvases :
          AnyPress(c) =>
             \A b \in Range(boxes[c]) \ Range(boxes'[c]) :
                deleted_boxes_stack' =
                   Append(deleted_boxes_stack, <<b, IndexOf(boxes[c], b) - 1>>)]_vars

\* C27: in every reachable state a canvas's selected_box is None or a member
\* of its current collection, a delete of the selected element having
\* cleared the selection.
C27_SelectionInCollection ==
    \A c \in Canvases :
       Active(c) => (selected_box[c] = None \/ selected_box[c] \in Range(boxes[c]))

\* C28: for every k >= 1, k deletes followed by k undos, with nothing else
\* between them, restore the collection exactly, same elements in the same
\* order, and leave the undo stack as it was: the undos restore
\* last-deleted-first, each element at its recorded index.
C28_DeletesThenUndosRestore ==
    (snap.op = "undo" /\ snap.run = <<>>)
        => /\ boxes["markup"] = snap.before
           /\ Len(deleted_boxes_stack) = snap.base

\* Two deletes have emptied a collection of two and two undos have followed.
C28_TwoDeletedTwoUndone ==
    /\ snap.op = "undo" /\ snap.run = <<>> /\ snap.k = 2
    /\ Len(snap.before) = 2

\* A pointer-move of a resize gesture on the main canvas back to the point
\* where the handle was pressed.
ResizeMoveToAnchor ==
    /\ InGesture
    /\ Grabbed.is_resizing /\ Grabbed.resize_handle # NoHandle
    /\ MouseMove("main", drag_start_position["main"])

\* C29: during one resize gesture the rectangle written after a move to p
\* depends only on the original rectangle, the handle, the anchor and p; in
\* particular a move back to the anchor restores the original rectangle
\* exactly.
C29_AnchorRestoresOriginal ==
    [][ResizeMoveToAnchor =>
          heap'[selected_box["main"]].rect = original_rect["main"]]_vars

\* The rectangle a resize move to p gives before the minimum size is
\* enforced: the handle's edges of original_rect moved by the image delta.
Stretched(p) ==
    LET sc == scale["main"]
        dsp == drag_start_position["main"]
    IN  ApplyHandle(original_rect["main"], Grabbed.resize_handle,
                    TruncDiv((p.x - dsp.x) * sc.d, sc.n),
                    TruncDiv((p.y - dsp.y) * sc.d, sc.n))

ResizeMoveTo(p) ==
    /\ InGesture
    /\ Grabbed.is_resizing /\ Grabbed.resize_handle # NoHandle
    /\ MouseMove("main", p)

\* C30: when a resize would make the width (height) fall below 10, the edge
\* opposite to the moving one keeps its original position: the right edge
\* for the handles moving the left edge, x for the handles moving the right
\* edge, the bottom edge for the handles moving the top, y for the handles
\* moving the bottom.
C30_OppositeEdgeKept ==
    [][\A p \in MovePoints :
          ResizeMoveTo(p) =>
             LET h == Grabbed.resize_handle
                 o == original_rect["main"]
                 r == heap'[selected_box["main"]].rect
             IN  /\ Width(Stretched(p)) < min_size =>
                      /\ h \in {"top-left", "bottom-left", "left"} => r.x2 = o.x2
                      /\ h \in {"top-right", "bottom-right", "right"} => r.x1 = o.x1
                 /\ Height(Stretched(p)) < min_size =>
                      /\ h \in {"top-left", "top-right", "top"} => r.y2 = o.y2
                      /\ h \in {"bottom-left", "bottom-right", "bottom"} => r.y1 = o.y1]_vars

\* C31: a resize with the top or bottom handle leaves the element's x and
\* width unchanged, and a resize with the left or right handle leaves its y
\* and height unchanged, for every original rectangle and every pointer
\* position.
C31_EdgeHandleOneDimension ==
    [][\A p \in MovePoints :
          ResizeMoveTo(p) =>
             LET h == Grabbed.resize_handle
                 o == original_rect["main"]
                 r == heap'[selected_box["main"]].rect
             IN  /\ h \in {"top", "bottom"} => (r.x1 = o.x1 /\ Width(r) = Width(o))
                 /\ h \in {"left", "right"} => (r.y1 = o.y1 /\ Height(r) = Height(o))]_vars

\* A pointer-move of a drag gesture on the main canvas.
DragMoveTo(p) ==
    /\ InGesture
    /\ Grabbed.is_dragging /\ ~Grabbed.is_resizing
    /\ MouseMove("main", p)

\* C32: after every pointer-move of a drag, for an element no wider and no
\* higher than the image, the rectangle lies fully inside the image:
\* 0 <= x, 0 <= y, x + width <= W and y + height <= H, wherever the pointer is.
C32_DragStaysInImage ==
    [][\A p \in MovePoints :
          (/\ DragMoveTo(p)
           /\ Width(Grabbed.rect) <= img_w("main")
           /\ Height(Grabbed.rect) <= img_h("main"))
          => InsideImage(heap'[selected_box["main"]].rect)]_vars

\* An element detected past the image's right side has been dragged towards
\* the bottom-right corner and stopped at the image's edges, its size kept.
C32_DraggedToCorner ==
    /\ InGesture
    /\ Grabbed.is_dragging /\ ~Grabbed.is_resizing /\ Grabbed.edited
    /\ Grabbed.src_box = <<500, 300, 640, 380>>
    /\ Width(Grabbed.rect) = 140 /\ Height(Grabbed.rect) = 80
    /\ Grabbed.rect.x1 + 140 = img_w("main")
    /\ Grabbed.rect.y1 + 80 = img_h("main")

\* C33: after every pointer-move of a resize, the rectangle lies within
\* [0,0]-[W,H]: 0 <= x, 0 <= y, x + width <= W and y + height <= H, so the
\* exported box never exceeds the image bounds.
C33_ResizeStaysInImage ==
    [][\A p \in MovePoints :
          ResizeMoveTo(p) => InsideImage(heap'[selected_box["main"]].rect)]_vars

(***************************************************************************)
(* The modular canvas, src/views/canvas.py: an image and an AnalysisResult *)
(* shown in a widget, the pointer pressed, moved and released on it, the   *)
(* widget resized, and the controller toggling an element's selection.     *)
(* Elements are data_models.BoundingBox objects; the canvas refers to the  *)
(* element in play by its position in the result's list.                   *)
(***************************************************************************)
\* BoundingBox.update_resize_handles: the eight handles around scaled_rect.
update_resize_handles(e) ==
    IF ~e.has_scaled THEN e
    ELSE LET size == e.resize_handle_size
             r == e.scaled_rect
             cx == r.x + r.width \div 2
             cy == r.y + r.height \div 2
             left == r.x - size \div 2
             right == r.x + r.width - size \div 2
             top == r.y - size \div 2
             bottom == r.y + r.height - size \div 2
         IN  [e EXCEPT !.resize_handles =
                 [n \in HandleNames |->
                    Rectangle(CASE n \in {"top-left", "bottom-left", "left"} -> left
                                [] n \in {"top-right", "bottom-right", "right"} -> right
                                [] OTHER -> cx - size \div 2,
                              CASE n \in {"top-left", "top-right", "top"} -> top
                                [] n \in {"bottom-left", "bottom-right", "bottom"} -> bottom
                                [] OTHER -> cy - size \div 2,
                              size, size)]]

\* data_models.BoundingBox.get_resize_handle_at: the first handle of the
\* dictionary whose rectangle contains the point; the dictionary is empty
\* until update_resize_handles has run.
ElementHandleAt(e, p) ==
    LET hit == {j \in 1..Len(HandleOrder) :
                  /\ HandleOrder[j] \in DOMAIN e.resize_handles
                  /\ Rectangle_contains(e.resize_handles[HandleOrder[j]], p.x, p.y)}
    IN  IF hit = {} THEN NoHandle
        ELSE HandleOrder[CHOOSE j \in hit : \A k \in hit : j <= k]

\* The BoundingBox _parse_analysis_response builds for a detection box.
ViewElement(id, box) ==
    [element_id |-> id,
     rect |-> Rectangle(box[1], box[2], box[3] - box[1], box[4] - box[2]),
     is_selected |-> FALSE, is_hovered |-> FALSE,
     is_dragging |-> FALSE, is_resizing |-> FALSE, resize_handle |-> NoHandle,
     resize_handle_size |-> 8,
     has_scaled |-> FALSE, scaled_rect |-> Rectangle(0, 0, 0, 0),
     resize_handles |-> <<>>]

\* A QPoint attribute: None, or the point the last event gave.
NoPos == [set |-> FALSE, x |-> 0, y |-> 0]
Pos(p) == [set |-> TRUE, x |-> p.x, y |-> p.y]

\* ImageCanvas.__init__ and _setup_ui, the widget shown with size ws.
NewView(ws) ==
    [made |-> TRUE, original_image |-> NoPixmap, scaled_pixmap |-> FALSE, ws |-> ws,
     scale_factor |-> [n |-> 1, d |-> 1], image_offset |-> Point(0, 0),
     has_result |-> FALSE, elements |-> <<>>,
     dragging_element |-> None, resizing_element |-> None,
     last_mouse_pos |-> NoPos, element_selected |-> <<>>,
     edits |-> 0]

\* _update_scaled_image in the canvas v; a null full_pixmap raises at the
\* division, after scaled_pixmap is assigned.
ViewScaled(v) ==
    IF ~v.original_image.set THEN [v EXCEPT !.element_selected = <<>>]
    ELSE LET u == _update_scaled_image(v.original_image, v.ws)
         IN  IF u.raised THEN [v EXCEPT !.scaled_pixmap = TRUE, !.element_selected = <<>>]
             ELSE [v EXCEPT !.scaled_pixmap = TRUE, !.scale_factor = u.scale,
                            !.image_offset = u.offset, !.element_selected = <<>>]

\* _update_element_positions over the result's elements.
ViewPositioned(v) ==
    IF ~v.has_result \/ ~v.scaled_pixmap THEN v
    ELSE [v EXCEPT !.elements =
            [i \in 1..Len(v.elements) |->
               update_resize_handles(
                  _update_element_positions(v.elements[i], v.scale_factor, v.image_offset))]]

Raises(v) == v.original_image.set /\ _update_scaled_image(v.original_image, v.ws).raised

\* ImageCanvas.set_image
ViewSetImage(img) ==
    /\ view.made
    /\ view' = ViewScaled([view EXCEPT !.original_image = [set |-> TRUE, w |-> img.w, h |-> img.h]])
    /\ UNCHANGED <<canvas_vars, fn_vars, app>>

\* ImageCanvas.set_analysis_result
ViewSetAnalysis(els) ==
    /\ view.made
    /\ view' = ViewPositioned([view EXCEPT !.has_result = TRUE, !.elements = els,
                                            !.element_selected = <<>>])
    /\ UNCHANGED <<canvas_vars, fn_vars, app>>

\* ImageCanvas.resizeEvent
ViewResize(ws) ==
    /\ view.made
    /\ LET v == [view EXCEPT !.ws = ws]
       IN  view' = IF ~v.original_image.set THEN [v EXCEPT !.element_selected = <<>>]
                   ELSE IF Raises(v) THEN ViewScaled(v)
                   ELSE ViewPositioned(ViewScaled(v))
    /\ UNCHANGED <<canvas_vars, fn_vars, app>>

\* A QPoint attribute tested with `not`: None, or the null point (0, 0).
Falsy(p) == ~p.set \/ (p.x = 0 /\ p.y = 0)

\* ImageCanvas.mousePressEvent, left button
ViewPress(pos) ==
    /\ view.made
    /\ LET i == _get_element_at_position([set |-> view.has_result, elements |-> view.elements], pos)
       IN  IF i = None
           THEN view' = [view EXCEPT !.last_mouse_pos = Pos(pos), !.element_selected = <<>>]
           ELSE LET e == view.elements[i]
                    handle == ElementHandleAt(e, pos)
                IN  IF handle # NoHandle /\ e.is_selected
                    THEN view' = [view EXCEPT !.resizing_element = i,
                                              !.elements[i].is_resizing = TRUE,
                                              !.elements[i].resize_handle = handle,
                                              !.last_mouse_pos = Pos(pos),
                                              !.element_selected = <<e.element_id>>]
                    ELSE view' = [view EXCEPT !.dragging_element = i,
                                              !.elements[i].is_dragging = TRUE,
                                              !.last_mouse_pos = Pos(pos),
                                              !.element_selected = <<e.element_id>>]
    /\ UNCHANGED <<canvas_vars, fn_vars, app>>

\* ImageCanvas._handle_drag: the element moved by the pointer's delta
_handle_drag(v, pos) ==
    IF v.dragging_element = None \/ Falsy(v.last_mouse_pos) THEN v
    ELSE LET i == v.dragging_element
             e == v.elements[i]
         IN  IF ~e.has_scaled THEN v
             ELSE [v EXCEPT !.elements[i] =
                     update_resize_handles(
                        [e EXCEPT !.scaled_rect.x = @ + pos.x - v.last_mouse_pos.x,
                                  !.scaled_rect.y = @ + pos.y - v.last_mouse_pos.y])]

\* ImageCanvas._handle_resize: the handle's sides moved by the delta, then
\* width and height raised to min_size.
ViewResized(r, handle, dx, dy) ==
    LET a == CASE handle = "top-left" ->
                    Rectangle(r.x + dx, r.y + dy, r.width - dx, r.height - dy)
               [] handle = "top-right" -> Rectangle(r.x, r.y + dy, r.width + dx, r.height - dy)
               [] handle = "bottom-left" -> Rectangle(r.x + dx, r.y, r.width - dx, r.height + dy)
               [] handle = "bottom-right" -> Rectangle(r.x, r.y, r.width + dx, r.height + dy)
               [] handle = "top" -> Rectangle(r.x, r.y + dy, r.width, r.height - dy)
               [] handle = "bottom" -> Rectangle(r.x, r.y, r.width, r.height + dy)
               [] handle = "left" -> Rectangle(r.x + dx, r.y, r.width - dx, r.height)
               [] handle = "right" -> Rectangle(r.x, r.y, r.width + dx, r.height)
               [] OTHER -> r
    IN  Rectangle(a.x, a.y, Max(a.width, min_size), Max(a.height, min_size))

_handle_resize(v, pos) ==
    IF v.resizing_element = None \/ Falsy(v.last_mouse_pos) THEN v
    ELSE LET i == v.resizing_element
             e == v.elements[i]
         IN  IF ~e.has_scaled \/ e.resize_handle = NoHandle THEN v
             ELSE [v EXCEPT !.elements[i] =
                     update_resize_handles(
                        [e EXCEPT !.scaled_rect =
                            ViewResized(e.scaled_rect, e.resize_handle,
                                        pos.x - v.last_mouse_pos.x,
                                        pos.y - v.last_mouse_pos.y)])]

\* ImageCanvas._handle_hover
_handle_hover(v, pos) ==
    LET i == _get_element_at_position([set |-> v.has_result, elements |-> v.elements], pos)
    IN  [v EXCEPT !.elements =
           [j \in 1..Len(v.elements) |->
              [v.elements[j] EXCEPT !.is_hovered = (j = i)]],
                  !.element_selected = <<>>]

\* Whether a pointer-move goes to _handle_resize or _handle_drag.
ViewInGesture(v) ==
    \/ v.resizing_element # None /\ v.elements[v.resizing_element].is_resizing
    \/ v.dragging_element # None /\ v.elements[v.dragging_element].is_dragging

\* ImageCanvas.mouseMoveEvent; edits counts the moves of gestures.
ViewMove(pos) ==
    /\ view.made
    /\ LET v == [view EXCEPT !.element_selected = <<>>]
           w == IF v.resizing_element # None /\ v.elements[v.resizing_element].is_resizing
                THEN _handle_resize(v, pos)
                ELSE IF v.dragging_element # None /\ v.elements[v.dragging_element].is_dragging
                THEN _handle_drag(v, pos)
                ELSE _handle_hover(v, pos)
       IN  view' = [w EXCEPT !.last_mouse_pos = Pos(pos),
                             !.edits = IF ViewInGesture(v) THEN @ + 1 ELSE @]
    /\ UNCHANGED <<canvas_vars, fn_vars, app>>

\* ImageCanvas.mouseReleaseEvent
ViewRelease ==
    /\ view.made
    /\ LET d == view.dragging_element
           v == IF d = None THEN view
                ELSE [view EXCEPT !.elements[d].is_dragging = FALSE, !.dragging_element = None]
           r == v.resizing_element
       IN  view' = IF r = None THEN [v EXCEPT !.element_selected = <<>>]
                   ELSE [v EXCEPT !.elements[r].is_resizing = FALSE,
                                  !.elements[r].resize_handle = NoHandle,
                                  !.resizing_element = None,
                                  !.element_selected = <<>>]
    /\ UNCHANGED <<canvas_vars, fn_vars, app>>

\* AnalysisResult.get_element_by_id: the position of the first element with
\* the id, or None.
get_element_by_id(els, id) ==
    LET hit == {i \in 1..Len(els) : els[i].element_id = id}
    IN  IF hit = {} THEN None ELSE CHOOSE i \in hit : \A k \in hit : i <= k

\* AppController.toggle_element_selection, select_all_elements and
\* clear_selection on the elements of the current analysis result.
toggle_element_selection(els, id) ==
    LET i == get_element_by_id(els, id)
    IN  IF i = None THEN els ELSE [els EXCEPT ![i].is_selected = ~@]
select_all_elements(els) == [i \in 1..Len(els) |-> [els[i] EXCEPT !.is_selected = TRUE]]
clear_selection(els) == [i \in 1..Len(els) |-> [els[i] EXCEPT !.is_selected = FALSE]]

\* The controller toggling an element of the result the canvas shows.
ViewToggle(id) ==
    /\ view.made /\ view.has_result
    /\ view' = [view EXCEPT !.elements = toggle_element_selection(@, id),
                            !.element_selected = <<>>]
    /\ UNCHANGED <<canvas_vars, fn_vars, app>>

\* FileManager.export_analysis_json: the bounding_box entries written.
export_analysis_json(els) ==
    [i \in 1..Len(els) |-> [id |-> els[i].element_id, bounding_box |-> els[i].rect]]

ViewImages == {[w |-> 600, h |-> 400]}
ViewSizes == {[w |-> 600, h |-> 400], [w |-> 900, h |-> 600]}
ViewElements == <<ViewElement("1", <<10, 10, 50, 50>>), ViewElement("2", <<100, 100, 200, 150>>)>>
ViewPoints == {Point(0, 0), Point(30, 30), Point(50, 50), Point(150, 125), Point(160, 140)}

InitView == InitCanvas /\ FnIdle /\ app = NoApp /\ view = NewView([w |-> 600, h |-> 400])

\* An image and its analysis are shown once; then the pointer, the widget
\* and the controller act.
NextView ==
    \/ \E img \in ViewImages : ~view.original_image.set /\ ViewSetImage(img)
    \/ view.original_image.set /\ ~view.has_result /\ ViewSetAnalysis(ViewElements)
    \/ \E p \in ViewPoints : view.has_result /\ ViewPress(p)
    \/ \E p \in ViewPoints :
          /\ view.has_result
          /\ ViewInGesture(view) => view.edits < MaxEdits
          /\ ViewMove(p)
    \/ view.has_result /\ ViewRelease
    \/ \E ws \in ViewSizes : ViewResize(ws)
    \/ \E id \in {"1", "2"} : ViewToggle(id)

SpecView == InitView /\ [][NextView]_vars

\* C34: in the modular canvas a drag or resize gesture writes the new
\* geometry back to the element's image-space rect: what
\* export_analysis_json emits for an element is where the canvas shows it,
\* and a later resizeEvent, which recomputes the display rectangle from rect,
\* does not revert it.  Stated for the scale 1, where the conversion is exact.
C34_GestureWritesBack ==
    (view.made /\ view.scale_factor.n = view.scale_factor.d) =>
        \A i \in 1..Len(view.elements) :
           view.elements[i].has_scaled =>
              view.elements[i].scaled_rect =
                 _update_element_positions(
                    [view.elements[i] EXCEPT
                        !.rect = export_analysis_json(view.elements)[i].bounding_box],
                    view.scale_factor, view.image_offset).scaled_rect

(***************************************************************************)
(* The controller, src/controllers/app_controller.py: the current project  *)
(* and image, and for the call just made what it returned, how many status *)
(* messages it emitted and which analysis callbacks it invoked.  The file  *)
(* manager and the AI service are the environment: each call's outcome is  *)
(* an input.                                                               *)
(***************************************************************************)
NoProject == [name |-> "", image_path |-> "", has_result |-> FALSE, elements |-> <<>>]
NoImage == [w |-> 0, h |-> 0]

\* ProjectData(name=name, created_at=...)
ProjectData(name) == [NoProject EXCEPT !.name = name]

\* What a call must leave alone when it fails.
Kept3(a) == [has_project |-> a.has_project, current_project |-> a.current_project,
             has_image |-> a.has_image, current_image |-> a.current_image]

\* AppController.__init__
NewApp ==
    [made |-> TRUE, has_project |-> FALSE, current_project |-> NoProject,
     has_image |-> FALSE, current_image |-> NoImage,
     call |-> "none", returned |-> TRUE, raised |-> FALSE, status |-> 0,
     completed |-> 0, failed |-> 0,
     before |-> [has_project |-> FALSE, current_project |-> NoProject,
                 has_image |-> FALSE, current_image |-> NoImage]]

\* The start of a call: the record of the last call is reset.
Called(a, op) ==
    [a EXCEPT !.call = op, !.returned = TRUE, !.raised = FALSE, !.status = 0,
              !.completed = 0, !.failed = 0, !.before = Kept3(a)]

\* _emit_status, _emit_analysis_completed, _emit_analysis_failed, and return
_emit_status(a) == [a EXCEPT !.status = @ + 1]
_emit_analysis_completed(a) == [a EXCEPT !.completed = @ + 1]
_emit_analysis_failed(a) == [a EXCEPT !.failed = @ + 1]
Return(a, v) == [a EXCEPT !.returned = v]

\* AppController.create_new_project
create_new_project(a, name) ==
    Return(_emit_status([a EXCEPT !.has_project = TRUE,
                                  !.current_project = ProjectData(name)]), TRUE)

\* AppController.load_image: file is what file_manager.load_image finds at
\* the path: an image, or nothing.
load_image(a, file) ==
    IF ~file.loads THEN Return(_emit_status(a), FALSE)
    ELSE LET b == [a EXCEPT !.has_image = TRUE, !.current_image = file.image]
             c == IF b.has_project
                  THEN [b EXCEPT !.current_project.image_path = file.path]
                  ELSE [create_new_project(b, file.stem) EXCEPT
                           !.current_project.image_path = file.path]
         IN  Return(_emit_status(c), TRUE)

\* load_project assigning current_project before it tests the loaded value.
load_project_assigns_first(a, file) ==
    IF ~file.found
    THEN Return(_emit_status([a EXCEPT !.has_project = FALSE,
                                       !.current_project = NoProject]), FALSE)
    ELSE Return(_emit_status([a EXCEPT !.has_project = TRUE,
                                       !.current_project = file.project]), TRUE)

\* AppController.load_project: file is what file_manager.load_project
\* returns, and what lies at the project's image path.
load_project_of(a, file) ==
    IF ~file.found THEN Return(_emit_status(a), FALSE)
    ELSE LET b == [a EXCEPT !.has_project = TRUE, !.current_project = file.project]
             c == IF file.project.image_path # "" /\ file.image.exists
                  THEN load_image(b, file.image)
                  ELSE b
         IN  Return(_emit_status(c), TRUE)

\* AppController.save_project: ok is file_manager.save_project's value.
save_project_of(a, ok) ==
    IF ~a.has_project THEN Return(_emit_status(a), FALSE)
    ELSE Return(_emit_status(a), ok)

\* AppController.analyze_current_image: available is
\* ai_service.is_available(), reply what ai_service.analyze_image does.
analyze_current_image(a, available, reply) ==
    IF ~a.has_image THEN Return(_emit_status(a), FALSE)
    ELSE IF ~available THEN Return(_emit_status(a), FALSE)
    ELSE LET started == _emit_status(a)
         IN  CASE reply.kind = "result" ->
                    LET b == IF started.has_project
                             THEN [started EXCEPT !.current_project.has_result = TRUE,
                                                  !.current_project.elements = reply.elements]
                             ELSE started
                    IN  Return(_emit_analysis_completed(_emit_status(b)), TRUE)
               [] reply.kind = "none" ->
                    Return(_emit_analysis_failed(_emit_status(started)), FALSE)
               [] OTHER ->
                    Return(_emit_analysis_failed(_emit_status(started)), FALSE)

\* AppController.export_analysis: ok is the file manager's value.
export_analysis(a, format_type, ok) ==
    IF ~a.has_project \/ ~a.current_project.has_result THEN Return(_emit_status(a), FALSE)
    ELSE IF format_type \notin {"json", "text"} THEN Return(_emit_status(a), FALSE)
    ELSE Return(_emit_status(a), ok)

\* toggle_element_selection, clear_selection and select_all_elements on the
\* current project's analysis result.
OnSelection(a, op, id) ==
    IF ~a.has_project \/ ~a.current_project.has_result THEN Return(a, op # "toggle")
    ELSE LET els == a.current_project.elements
         IN  CASE op = "toggle" ->
                    Return([a EXCEPT !.current_project.elements =
                                        toggle_element_selection(els, id)],
                           get_element_by_id(els, id) # None)
               [] op = "select_all" ->
                    [a EXCEPT !.current_project.elements = select_all_elements(els)]
               [] OTHER ->
                    [a EXCEPT !.current_project.elements = clear_selection(els)]

\* The environment of a session: one image file, one project file saved
\* with an analysis of two elements, and the replies of the AI service.
AppImage == [exists |-> TRUE, loads |-> TRUE, image |-> [w |-> 600, h |-> 400],
             path |-> "shot.png", stem |-> "shot"]
ImageFiles == {AppImage, [AppImage EXCEPT !.loads = FALSE], [AppImage EXCEPT !.exists = FALSE, !.loads = FALSE]}
SavedProject == [name |-> "saved", image_path |-> "shot.png", has_result |-> TRUE,
                 elements |-> ViewElements]
ProjectFiles ==
    {[found |-> fd, project |-> pr, image |-> im] :
        fd \in BOOLEAN, pr \in {SavedProject, ProjectData("empty")}, im \in ImageFiles}
Replies == {[kind |-> "result", elements |-> ViewElements],
            [kind |-> "result", elements |-> <<>>],
            [kind |-> "none", elements |-> <<>>],
            [kind |-> "raises", elements |-> <<>>]}
Formats == {"json", "text", "txt"}

AppStep(a) ==
    /\ app.made
    /\ app' = a
    /\ UNCHANGED <<canvas_vars, fn_vars, view>>

InitController == InitCanvas /\ FnIdle /\ view = NoView /\ app = NewApp

NextController ==
    \/ AppStep(create_new_project(Called(app, "create_new_project"), "new"))
    \/ \E f \in ProjectFiles : AppStep(load_project_of(Called(app, "load_project"), f))
    \/ \E ok \in BOOLEAN : AppStep(save_project_of(Called(app, "save_project"), ok))
    \/ \E f \in ImageFiles : AppStep(load_image(Called(app, "load_image"), f))
    \/ \E av \in BOOLEAN, r \in Replies :
          AppStep(analyze_current_image(Called(app, "analyze_current_image"), av, r))
    \/ \E fmt \in Formats, ok \in BOOLEAN :
          AppStep(export_analysis(Called(app, "export_analysis"), fmt, ok))
    \/ \E op \in {"toggle", "select_all", "clear"}, id \in {"1", "2", "9"} :
          AppStep(OnSelection(Called(app, op), op, id))

SpecController == InitController /\ [][NextController]_vars

\* C35: after any sequence of toggle_element_selection, select_all_elements
\* and clear_selection calls, at most one element of the current analysis
\* result has is_selected = true.
C35_AtMostOneSelected ==
    app.made =>
       Cardinality({i \in 1..Len(app.current_project.elements) :
                       app.current_project.elements[i].is_selected}) <= 1

Operations == {"load_project", "save_project", "load_image",
               "analyze_current_image", "export_analysis"}

C38_AnalysisAlwaysReported ==
    (app.made /\ app.call = "analyze_current_image")
        => /\ app.completed + app.failed = 1
           /\ app.completed = 1 <=> app.returned

(***************************************************************************)
(* The pointer alone on the main canvas: one image with two overlapping    *)
(* elements, pressed, moved and released, the context menu dismissed.      *)
(***************************************************************************)
NextFrame ==
    \/ ~pixmap["main"].set /\ OpenImage(SessionImage, GoodInput(SessionElements), SessionSize)
          /\ UNCHANGED <<fn_vars, pkg_vars>>
    \/ \E p \in SessionPoints : LeftPress("main", p, "other") /\ UNCHANGED <<fn_vars, pkg_vars>>
    \/ \E p \in SessionPoints :
          RightPress("main", p, "other", "other") /\ UNCHANGED <<fn_vars, pkg_vars>>
    \/ \E p \in SessionPoints : MouseMove("main", p) /\ UNCHANGED <<fn_vars, pkg_vars>>
    \/ MouseRelease("main") /\ UNCHANGED <<fn_vars, pkg_vars>>

SpecFrame == Init /\ [][NextFrame]_vars

\* A pointer event on the main canvas: a left or right pointer-down whose
\* menu is dismissed, a pointer-move or a pointer-up.
PointerEvent ==
    \/ \E p \in SessionPoints : LeftPress("main", p, "other")
    \/ \E p \in SessionPoints : RightPress("main", p, "other", "other")
    \/ \E p \in SessionPoints : MouseMove("main", p)
    \/ MouseRelease("main")

C40_CloseCopiesCollection ==
    [][CloseMarkupMode => boxes'["main"] = boxes["markup"]]_vars

====
